---- MODULE Spec2Model ----
(***************************************************************************)
(* Model of the milpa-cloud plugin coordinator: the session protocol       *)
(* (PluginManager.Handshake / Heartbeat and their HTTP twins), the         *)
(* liveness monitor (checkHeartbeats), the persistence gateway             *)
(* (db.Repository) and the event bus (EventBus).                           *)
(*                                                                         *)
(* Every inbound request is an independent task (goroutine); a task's      *)
(* steps are the points where it touches shared state (a gateway call or a *)
(* bus call), so the interleavings of the model are those of the program.  *)
(* Version strings are sequences of one-character strings.  Time is an     *)
(* integer clock whose unit is SecondsPerTick seconds.                     *)
(***************************************************************************)
EXTENDS Integers, Sequences, FiniteSets, TLC

(***************************************************************************)
(* Bounds of the model.                                                    *)
(***************************************************************************)
MaxTasks == 2       \* request tasks (handshakes and heartbeats) per run
MaxTime == 2        \* the clock runs 0..MaxTime
MaxSweeps == 1      \* liveness sweeps per run
MaxChans == 1       \* subscriber queues created per run
MaxVerLen == 3      \* length of the version strings of SpecCompat
MaxLifeSweeps == 2  \* liveness sweeps per run of SpecLife
MaxCastChans == 2   \* subscriber queues created per run of SpecCast
MaxStarts == 2      \* successful Start calls per run of SpecAgent

(***************************************************************************)
(* Program constants.                                                      *)
(***************************************************************************)
SubscriberQueueCap == 50    \* make(chan *PluginEvent, 50)
SecondsPerTick == 30        \* clock unit, chosen so that "30s" is one tick

PluginStatusRunning == "running"
PluginStatusStopped == "stopped"
PluginStatusUnhealthy == "unhealthy"
EventTypePluginConnected == "plugin_connected"

CoreAPIVersion == <<"1", ".", "0">>     \* the literal "1.0" of the handshake

(***************************************************************************)
(* Input domains.                                                          *)
(***************************************************************************)
PluginIds == {"p1", "p2"}
SessionIds == {"inst-a", "inst-b"}      \* values generateUUID can return
RequestTokens == {"secret", "wrong"}
ApiVersions == {<<"1", ".", "0">>, <<"2", ".", "0">>}
AllowLists == {<<>>, <<"p1">>}
VersionChars == {"1", "2", "."}
TaskIds == 1..MaxTasks
AuthTokens == 0..MaxTasks               \* 0 is never issued
NoSession == ""
NoToken == 0
Nil == -1                               \* a nil *time.Time

RECURSIVE StringsUpTo(_)
StringsUpTo(n) ==
    IF n = 0 THEN {<<>>}
    ELSE LET shorter == StringsUpTo(n - 1)
         IN  shorter \cup {Append(s, c) : s \in {x \in shorter : Len(x) = n - 1},
                                          c \in VersionChars}

VersionStrings == StringsUpTo(MaxVerLen)

VARIABLES config, now, defs, insts, tokensIssued, subs, chans, tasks, returned,
          monitor, probe, closed, panicked, agent

vars == <<config, now, defs, insts, tokensIssued, subs, chans, tasks, returned,
          monitor, probe, closed, panicked, agent>>

\* The coordinator's side, which no step of the agent touches.
coreVars == <<config, now, defs, insts, tokensIssued, subs, chans, tasks,
              monitor, probe, closed, panicked>>

(***************************************************************************)
(* Records.                                                                *)
(***************************************************************************)
NoDef == [present |-> FALSE, version |-> "", api_version |-> <<>>,
          capabilities |-> <<>>, enabled |-> FALSE]

NoInst == [id |-> NoSession, definition_id |-> "", status |-> "",
           enabled |-> FALSE, auth_token |-> NoToken, last_heartbeat |-> Nil]

NoReq == [plugin_id |-> "", version |-> "", api_version |-> <<>>,
          capabilities |-> <<>>, token |-> "",
          session_id |-> NoSession, auth_token |-> NoToken]

NoResp == [accepted |-> FALSE, session_id |-> NoSession, auth_token |-> NoToken,
           error |-> "", grpc_err |-> "none", http_err |-> "none"]

\* The zero PluginEvent.
NoEvent == [type |-> "", data |-> ""]

IdleTask == [kind |-> "none", pc |-> "idle", req |-> NoReq,
             sessionID |-> NoSession, authToken |-> NoToken, now |-> Nil,
             instance |-> NoInst, ch |-> 0, snap |-> {}, event |-> NoEvent]

DoneTask == [IdleTask EXCEPT !.pc = "done"]

\* What a handler hands back to its caller in the step it returns: the
\* request it served and the response (for a heartbeat, accepted is ok and
\* error is message).  returned is NoReturn after every other step.
Return(task, resp) ==
    [kind |-> task.kind, req |-> task.req, resp |-> resp, event |-> task.event]

NoReturn == Return(IdleTask, NoResp)

\* One pair of loops of the agent, as spawned by one Start: the position of
\* heartbeatLoop (hb), the tick buffered in its ticker.C, the request of the
\* heartbeat call it is in, and the position of eventLoop (ev).
NoLoops == [hb |-> "off", tick |-> FALSE, session_id |-> NoSession,
            auth_token |-> NoToken, ev |-> "off"]

\* sdk.Plugin before any Start: no client yet (its fields read as empty),
\* the context of NewPlugin not cancelled, an empty WaitGroup, no call of
\* Start or Stop in progress.  handler is config.EventHandler != nil and
\* hung is a coordinator that answers no request.
NoAgent == [client |-> [session_id |-> NoSession, auth_token |-> NoToken],
            cancelled |-> FALSE, wg |-> 0, call |-> "none", starts |-> 0,
            loops |-> [i \in 1..MaxStarts |-> NoLoops],
            handler |-> FALSE, hung |-> FALSE]

\* The monitor goroutine between two sweeps; ticked is the tick buffered in
\* ticker.C (a channel of capacity 1).
IdleMonitor == [pc |-> "idle", pending |-> {}, cutoff |-> 0, sweeps |-> 0,
                ticked |-> FALSE]

\* What one iteration of the loop of checkHeartbeats writes to the log for
\* the instance it looked at: demoted is the Warn "plugin unhealthy",
\* persisted is FALSE when the Error "failed to update instance status" was
\* logged.
SweepLog(inst, demoted, persisted) ==
    [kind |-> "sweep", req |-> inst,
     resp |-> [demoted |-> demoted, persisted |-> persisted]]

NoProbe == [pc |-> "off", plugin |-> <<>>, core |-> <<>>, compatible |-> FALSE,
            error |-> ""]

(***************************************************************************)
(* strings.Split(s, sep) for a one-character separator, and                *)
(* isAPIVersionCompatible.                                                 *)
(***************************************************************************)
RECURSIVE Split(_, _)
Split(s, sep) ==
    IF \A i \in 1..Len(s) : s[i] # sep
    THEN <<s>>
    ELSE LET i == CHOOSE k \in 1..Len(s) :
                      s[k] = sep /\ \A j \in 1..(k - 1) : s[j] # sep
         IN  <<SubSeq(s, 1, i - 1)>> \o Split(SubSeq(s, i + 1, Len(s)), sep)

\* Mutant: the whole strings are compared, not their majors.
isAPIVersionCompatible_WholeString(plugin, core) ==
    plugin = core

isAPIVersionCompatible(plugin, core) ==
    LET pm == Split(plugin, ".")[1]
        cm == Split(core, ".")[1]
    IN  pm = cm

(***************************************************************************)
(* The validation prefix of Handshake and HandshakeHTTP: the reason of the *)
(* first return taken, "" when the request passes.                         *)
(***************************************************************************)
\* Mutant: the token comparison is left out.
HandshakeCheck_NoTokenCheck(cfg, req) ==
    IF cfg.enabled
       /\ ~(\E i \in 1..Len(cfg.allowedPlugins) :
                cfg.allowedPlugins[i] = req.plugin_id)
    THEN "plugin not allowed"
    ELSE IF ~isAPIVersionCompatible(req.api_version, CoreAPIVersion)
    THEN "incompatible API version"
    ELSE ""

HandshakeCheck(cfg, req) ==
    IF cfg.enabled /\ req.token # cfg.pluginToken
    THEN "invalid token"
    ELSE IF cfg.enabled
            /\ ~(\E i \in 1..Len(cfg.allowedPlugins) :
                     cfg.allowedPlugins[i] = req.plugin_id)
    THEN "plugin not allowed"
    ELSE IF ~isAPIVersionCompatible(req.api_version, CoreAPIVersion)
    THEN "incompatible API version"
    ELSE ""

\* The gRPC handlers (Handshake, Heartbeat) and the HTTP handlers
\* (HandshakeHTTP, HeartbeatHTTP) run the same statements and build the same
\* response; they differ in their second result, a gRPC status on the gRPC
\* path and nil on the HTTP path.  One action stands for both and its
\* response carries both second results.
StatusError(reason) ==
    IF reason = "invalid token" THEN "Unauthenticated"
    ELSE IF reason = "plugin not allowed" THEN "PermissionDenied"
    ELSE IF reason = "incompatible API version" THEN "FailedPrecondition"
    ELSE IF reason = "internal error" THEN "Internal"
    ELSE IF reason = "session not found" THEN "NotFound"
    ELSE IF reason = "invalid auth token" THEN "Unauthenticated"
    ELSE "nil"

Rejected(reason) ==
    [accepted |-> FALSE, session_id |-> NoSession, auth_token |-> NoToken,
     error |-> reason, grpc_err |-> StatusError(reason), http_err |-> "nil"]

Accepted(sessionID, authToken, message) ==
    [accepted |-> TRUE, session_id |-> sessionID, auth_token |-> authToken,
     error |-> message, grpc_err |-> "nil", http_err |-> "nil"]

(***************************************************************************)
(* Session identity.  generateUUID keeps 12 hex digits of crypto/rand, and *)
(* the handshake itself expects duplicates ("Handle duplicate ID errors"): *)
(* any value of SessionIds may come back, a stored one included.           *)
(* generateToken keeps all 256 bits: a token never issued before.          *)
(***************************************************************************)
generateUUID == SessionIds

generateToken == tokensIssued + 1

(***************************************************************************)
(* The persistence gateway (db.Repository).  insts is the table of         *)
(* instances, a set of rows with primary key id; defs the table of         *)
(* definitions by id.                                                      *)
(***************************************************************************)
\* Where(id).Assign(*def).FirstOrCreate(def): a missing row is created from
\* def; a row found is updated with the fields of def that are not the zero
\* value of their type ("", nil, false), the others keep what is stored.
UpsertDefinition(table, id, def) ==
    IF ~table[id].present
    THEN [table EXCEPT ![id] = def]
    ELSE [table EXCEPT
            ![id] = [present |-> TRUE,
                     version |-> IF def.version = "" THEN @.version
                                 ELSE def.version,
                     api_version |-> IF def.api_version = <<>> THEN @.api_version
                                     ELSE def.api_version,
                     capabilities |-> IF def.capabilities = <<>>
                                      THEN @.capabilities
                                      ELSE def.capabilities,
                     enabled |-> IF def.enabled THEN TRUE ELSE @.enabled]]

\* Model(&PluginDefinition{}).Where(id).Update("enabled", enabled): no row,
\* no change and no error.
SetDefinitionEnabledRow(table, id, enabled) ==
    IF table[id].present THEN [table EXCEPT ![id].enabled = enabled]
    ELSE table

\* Mutant: the insert does not check the primary key.
CreateInstance_NoPrimaryKey(table, inst) ==
    [ok |-> TRUE, rows |-> table \cup {inst}]

\* db.Create: the insert fails on a primary key already present.
CreateInstance(table, inst) ==
    IF \E r \in table : r.id = inst.id
    THEN [ok |-> FALSE, rows |-> table]
    ELSE [ok |-> TRUE, rows |-> table \cup {inst}]

GetInstance(table, id) ==
    IF \E r \in table : r.id = id
    THEN CHOOSE r \in table : r.id = id
    ELSE NoInst

\* db.Save: writes every field of the row with this primary key.
UpdateInstance(table, inst) ==
    {r \in table : r.id # inst.id} \cup {inst}

ListInstances(table) == table

(***************************************************************************)
(* The event bus.  chans[c] is the buffer of channel c; subs maps a        *)
(* subscribed id to its channel, 0 when the id is not subscribed.          *)
(***************************************************************************)
Subscribed == {id \in SessionIds : subs[id] # 0}

SendBroadcast(queues, table, event) ==
    [c \in DOMAIN queues |->
        IF (\E id \in SessionIds : table[id] = c)
           /\ Len(queues[c]) < SubscriberQueueCap
        THEN Append(queues[c], event)
        ELSE queues[c]]

(***************************************************************************)
(* Initial state: a loaded configuration (config.Load: a non-empty token   *)
(* whenever security is enabled, heartbeat_timeout "30s"), an empty        *)
(* database, an event bus without subscribers, no request in flight.       *)
(***************************************************************************)
Init ==
    /\ config \in [enabled : BOOLEAN, pluginToken : {"secret"},
                   allowedPlugins : AllowLists, heartbeatTimeout : {"30s"}]
    /\ now = 0
    /\ defs = [p \in PluginIds |-> NoDef]
    /\ insts = {}
    /\ tokensIssued = 0
    /\ subs = [id \in SessionIds |-> 0]
    /\ chans = <<>>
    /\ tasks = [t \in TaskIds |-> IdleTask]
    /\ returned = NoReturn
    /\ monitor = IdleMonitor
    /\ closed = {}
    /\ panicked = FALSE
    /\ agent = NoAgent
    /\ probe = NoProbe

\* Task t is a fresh goroutine; tasks are numbered in the order they start.  A
\* request turned down by its first check returns at once and uses no task.
CanStart(t) ==
    /\ tasks[t].pc = "idle"
    /\ IF t = 1 THEN TRUE ELSE tasks[t - 1].pc # "idle"

(***************************************************************************)
(* PluginManager.Handshake / HandshakeHTTP.  Step 1: validation, then the  *)
(* session id, the auth token and the time are taken.  With security       *)
(* disabled the request's token is never read, and the task drops it.      *)
(***************************************************************************)
\* The handshake requests of Spec.
HandshakeRequests ==
    {[NoReq EXCEPT !.plugin_id = p, !.api_version = v, !.token = tok] :
        p \in PluginIds, tok \in RequestTokens, v \in ApiVersions}

\* Task t serves one of the requests in reqs.
HandshakeFrom(t, reqs) ==
    /\ CanStart(t)
    /\ \E req \in reqs :
          LET tok == req.token
              reason == HandshakeCheck(config, req)
              started == [IdleTask EXCEPT !.kind = "handshake", !.req = req]
          IN  IF reason # ""
              THEN /\ returned' = Return(started, Rejected(reason))
                   /\ UNCHANGED <<tasks, tokensIssued>>
              ELSE /\ \E sid \in generateUUID :
                          tasks' = [tasks EXCEPT
                              ![t] = [started EXCEPT !.pc = "upsert",
                                                     !.req.token =
                                                         IF config.enabled
                                                         THEN tok ELSE "",
                                                     !.sessionID = sid,
                                                     !.authToken = generateToken,
                                                     !.now = now]]
                   /\ tokensIssued' = generateToken
                   /\ returned' = NoReturn
    /\ UNCHANGED <<agent, config, now, defs, insts, subs, chans, monitor, probe,
                   closed, panicked>>

Handshake(t) == HandshakeFrom(t, HandshakeRequests)

\* The entities.PluginDefinition the handshake builds.
NewDefinition(req) ==
    [present |-> TRUE,
     version |-> req.version,
     api_version |-> req.api_version,
     capabilities |-> req.capabilities,
     enabled |-> TRUE]

\* Step 2: repo.UpsertDefinition; an error is logged and the handshake goes on.
HandshakeUpsertDefinition(t) ==
    /\ tasks[t].kind = "handshake" /\ tasks[t].pc = "upsert"
    /\ \E gatewayOk \in BOOLEAN :
          LET def == NewDefinition(tasks[t].req)
          IN  defs' = IF gatewayOk
                      THEN UpsertDefinition(defs, tasks[t].req.plugin_id, def)
                      ELSE defs
    /\ tasks' = [tasks EXCEPT ![t].pc = "create"]
    /\ returned' = NoReturn
    /\ UNCHANGED <<agent, config, now, insts, tokensIssued, subs, chans, monitor, probe,
                   closed, panicked>>

\* Mutant: the instance is built without its first heartbeat.
NewInstance_NoHeartbeat(task) ==
    [id |-> task.sessionID,
     definition_id |-> task.req.plugin_id,
     status |-> PluginStatusRunning,
     enabled |-> TRUE,
     auth_token |-> task.authToken,
     last_heartbeat |-> Nil]

\* The entities.PluginInstance the handshake builds.
NewInstance(task) ==
    [id |-> task.sessionID,
     definition_id |-> task.req.plugin_id,
     status |-> PluginStatusRunning,
     enabled |-> TRUE,
     auth_token |-> task.authToken,
     last_heartbeat |-> task.now]

\* Mutant: the error of repo.CreateInstance is logged and swallowed, as the
\* error of repo.UpsertDefinition is.
HandshakeCreateInstance_SwallowError(t) ==
    /\ tasks[t].kind = "handshake" /\ tasks[t].pc = "create"
    /\ \E gatewayOk \in BOOLEAN :
          LET created == CreateInstance(insts, NewInstance(tasks[t]))
          IN  insts' = IF gatewayOk /\ created.ok THEN created.rows ELSE insts
    /\ tasks' = [tasks EXCEPT ![t].pc = "broadcast"]
    /\ returned' = NoReturn
    /\ UNCHANGED <<agent, config, now, defs, tokensIssued, subs, chans, monitor, probe,
                   closed, panicked>>

\* Step 3: repo.CreateInstance; an error (of the gateway, or a session id
\* already stored) ends the handshake with "internal error".
HandshakeCreateInstance(t) ==
    /\ tasks[t].kind = "handshake" /\ tasks[t].pc = "create"
    /\ \E gatewayOk \in BOOLEAN :
          LET instance == NewInstance(tasks[t])
              created == CreateInstance(insts, instance)
          IN  IF gatewayOk /\ created.ok
              THEN /\ insts' = created.rows
                   /\ tasks' = [tasks EXCEPT ![t].pc = "broadcast"]
                   /\ returned' = NoReturn
              ELSE /\ insts' = insts
                   /\ tasks' = [tasks EXCEPT ![t] = DoneTask]
                   /\ returned' = Return(tasks[t],
                                      Rejected("internal error"))
    /\ UNCHANGED <<agent, config, now, defs, tokensIssued, subs, chans, monitor, probe,
                   closed, panicked>>

\* Step 4: the plugin_connected broadcast, then the accepting response.
\* Mutant: the event carries the session id, not the plugin id.
HandshakeSendBroadcast_SessionData(t) ==
    /\ tasks[t].kind = "handshake" /\ tasks[t].pc = "broadcast"
    /\ chans' = SendBroadcast(chans, subs,
                    [type |-> EventTypePluginConnected,
                     data |-> tasks[t].sessionID])
    /\ tasks' = [tasks EXCEPT ![t] = DoneTask]
    /\ returned' = Return(tasks[t],
                       Accepted(tasks[t].sessionID, tasks[t].authToken, ""))
    /\ UNCHANGED <<agent, config, now, defs, insts, tokensIssued, subs, monitor, probe,
                   closed, panicked>>

HandshakeSendBroadcast(t) ==
    /\ tasks[t].kind = "handshake" /\ tasks[t].pc = "broadcast"
    /\ chans' = SendBroadcast(chans, subs,
                    [type |-> EventTypePluginConnected,
                     data |-> tasks[t].req.plugin_id])
    /\ tasks' = [tasks EXCEPT ![t] = DoneTask]
    /\ returned' = Return(tasks[t],
                       Accepted(tasks[t].sessionID, tasks[t].authToken, ""))
    /\ UNCHANGED <<agent, config, now, defs, insts, tokensIssued, subs, monitor, probe,
                   closed, panicked>>

(***************************************************************************)
(* PluginManager.Heartbeat / HeartbeatHTTP.  Step 1: repo.GetInstance and  *)
(* the token comparison; the copy read is stamped with the time.           *)
(***************************************************************************)
\* Mutant: the auth token is not compared.
HeartbeatCheck_NoTokenCheck(instance, req) ==
    IF instance = NoInst THEN "session not found" ELSE ""

HeartbeatCheck(instance, req) ==
    IF instance = NoInst THEN "session not found"
    ELSE IF instance.auth_token # req.auth_token THEN "invalid auth token"
    ELSE ""

Heartbeat(t) ==
    /\ CanStart(t)
    /\ \E sid \in SessionIds, tok \in AuthTokens :
          LET req == [NoReq EXCEPT !.session_id = sid, !.auth_token = tok]
              instance == GetInstance(insts, sid)
              started == [IdleTask EXCEPT !.kind = "heartbeat", !.req = req]
              reason == HeartbeatCheck(instance, req)
          IN  IF reason # ""
              THEN /\ returned' = Return(started, Rejected(reason))
                   /\ UNCHANGED tasks
              ELSE /\ tasks' = [tasks EXCEPT
                          ![t] = [started EXCEPT
                                    !.pc = "update", !.now = now,
                                    !.instance =
                                        [instance EXCEPT
                                           !.last_heartbeat = now,
                                           !.status = PluginStatusRunning]]]
                   /\ returned' = NoReturn
    /\ UNCHANGED <<agent, config, now, defs, insts, tokensIssued, subs, chans, monitor,
                   probe,
                   closed, panicked>>

\* Step 2: repo.UpdateInstance; an error is logged and the answer is ok all
\* the same.
HeartbeatUpdateInstance(t) ==
    /\ tasks[t].kind = "heartbeat" /\ tasks[t].pc = "update"
    /\ \E gatewayOk \in BOOLEAN :
          insts' = IF gatewayOk THEN UpdateInstance(insts, tasks[t].instance)
                   ELSE insts
    /\ tasks' = [tasks EXCEPT ![t] = DoneTask]
    /\ returned' = Return(tasks[t], Accepted(NoSession, NoToken, "ok"))
    /\ UNCHANGED <<agent, config, now, defs, tokensIssued, subs, chans, monitor, probe,
                   closed, panicked>>

(***************************************************************************)
(* The liveness monitor: heartbeatMonitor runs checkHeartbeats on a tick.  *)
(***************************************************************************)
\* time.ParseDuration, in seconds; its error is dropped and leaves 0.
ParseDuration(s) == IF s = "30s" THEN 30 ELSE 0

\* checkHeartbeats up to the loop: the timeout, the list read, the cutoff.
\* The call is made by the loop of heartbeatMonitor, which receives a tick
\* only between two calls; maxSweeps bounds the sweeps of a run.
SweepBeginUpTo(maxSweeps) ==
    /\ monitor.pc = "idle"
    /\ monitor.sweeps < maxSweeps
    /\ LET timeout == IF config.heartbeatTimeout = "" THEN "30s"
                      ELSE config.heartbeatTimeout
           instances == ListInstances(insts)
           d == ParseDuration(timeout) \div SecondsPerTick
       IN  monitor' = [pc |-> IF instances = {} THEN "idle" ELSE "sweeping",
                       pending |-> instances,
                       cutoff |-> now - d,
                       sweeps |-> monitor.sweeps + 1,
                       ticked |-> FALSE]
    /\ returned' = NoReturn
    /\ UNCHANGED <<agent, config, now, defs, insts, tokensIssued, subs, chans, tasks,
                   probe,
                   closed, panicked>>

SweepBegin == SweepBeginUpTo(MaxSweeps)

\* Mutant: a heartbeat exactly at the cutoff counts as stale.
SweepInstance_NotStrict ==
    /\ monitor.pc = "sweeping"
    /\ \E inst \in monitor.pending :
          /\ IF inst.status = PluginStatusRunning
                /\ inst.last_heartbeat <= monitor.cutoff
             THEN /\ insts' = UpdateInstance(insts,
                                  [inst EXCEPT !.status = PluginStatusUnhealthy])
                  /\ returned' = SweepLog(inst, TRUE, TRUE)
             ELSE /\ insts' = insts
                  /\ returned' = SweepLog(inst, FALSE, TRUE)
          /\ monitor' = [monitor EXCEPT
                 !.pending = monitor.pending \ {inst},
                 !.pc = IF monitor.pending = {inst} THEN "idle" ELSE "sweeping"]
    /\ UNCHANGED <<agent, config, now, defs, tokensIssued, subs, chans, tasks, probe,
                   closed, panicked>>

\* Mutant: the status of the instance is not looked at.
SweepInstance_NoStatusCheck ==
    /\ monitor.pc = "sweeping"
    /\ \E inst \in monitor.pending :
          /\ IF inst.last_heartbeat = Nil
                \/ inst.last_heartbeat < monitor.cutoff
             THEN /\ insts' = UpdateInstance(insts,
                                  [inst EXCEPT !.status = PluginStatusUnhealthy])
                  /\ returned' = SweepLog(inst, TRUE, TRUE)
             ELSE /\ insts' = insts
                  /\ returned' = SweepLog(inst, FALSE, TRUE)
          /\ monitor' = [monitor EXCEPT
                 !.pending = monitor.pending \ {inst},
                 !.pc = IF monitor.pending = {inst} THEN "idle" ELSE "sweeping"]
    /\ UNCHANGED <<agent, config, now, defs, tokensIssued, subs, chans, tasks, probe,
                   closed, panicked>>

\* Mutant: the sweep ends at the first demotion the gateway refuses.
SweepInstance_AbortOnError ==
    /\ monitor.pc = "sweeping"
    /\ \E inst \in monitor.pending :
          IF inst.status = PluginStatusRunning
             /\ (inst.last_heartbeat = Nil \/ inst.last_heartbeat < monitor.cutoff)
          THEN \E gatewayOk \in BOOLEAN :
                  /\ insts' = IF gatewayOk
                              THEN UpdateInstance(insts,
                                       [inst EXCEPT
                                          !.status = PluginStatusUnhealthy])
                              ELSE insts
                  /\ returned' = SweepLog(inst, TRUE, gatewayOk)
                  /\ monitor' = [monitor EXCEPT
                         !.pending = IF gatewayOk THEN monitor.pending \ {inst}
                                     ELSE {},
                         !.pc = IF gatewayOk /\ monitor.pending # {inst}
                                THEN "sweeping" ELSE "idle"]
          ELSE /\ insts' = insts
               /\ returned' = SweepLog(inst, FALSE, TRUE)
               /\ monitor' = [monitor EXCEPT
                      !.pending = monitor.pending \ {inst},
                      !.pc = IF monitor.pending = {inst} THEN "idle"
                             ELSE "sweeping"]
    /\ UNCHANGED <<agent, config, now, defs, tokensIssued, subs, chans, tasks, probe,
                   closed, panicked>>

\* One iteration of the loop of checkHeartbeats, on the copy read by the list.
SweepInstance ==
    /\ monitor.pc = "sweeping"
    /\ \E inst \in monitor.pending :
          /\ IF inst.status # PluginStatusRunning
             THEN /\ insts' = insts
                  /\ returned' = SweepLog(inst, FALSE, TRUE)
             ELSE IF inst.last_heartbeat = Nil
                     \/ inst.last_heartbeat < monitor.cutoff
             THEN \E gatewayOk \in BOOLEAN :
                     /\ insts' = IF gatewayOk
                                 THEN UpdateInstance(insts,
                                          [inst EXCEPT
                                             !.status = PluginStatusUnhealthy])
                                 ELSE insts
                     /\ returned' = SweepLog(inst, TRUE, gatewayOk)
             ELSE /\ insts' = insts
                  /\ returned' = SweepLog(inst, FALSE, TRUE)
          /\ monitor' = [monitor EXCEPT
                 !.pending = monitor.pending \ {inst},
                 !.pc = IF monitor.pending = {inst} THEN "idle" ELSE "sweeping"]
    /\ UNCHANGED <<agent, config, now, defs, tokensIssued, subs, chans, tasks, probe,
                   closed, panicked>>

(***************************************************************************)
(* EventBus.Subscribe, and the passing of time.                            *)
(***************************************************************************)
\* The channel eb.broadcast, as a member of closed; the channels of the
\* subscribers are numbered from 1.
RelayChan == -2

\* Mutant: Subscribe closes the channel it replaces.
SubscribeUpTo_CloseOld(maxChans, instanceID) ==
    /\ ~panicked
    /\ Len(chans) < maxChans
    /\ chans' = Append(chans, <<>>)
    /\ subs' = [subs EXCEPT ![instanceID] = Len(chans) + 1]
    /\ closed' = IF subs[instanceID] # 0 THEN closed \cup {subs[instanceID]}
                 ELSE closed
    /\ returned' = NoReturn
    /\ UNCHANGED <<agent, config, now, defs, insts, tokensIssued, tasks, monitor, probe,
                   panicked>>

\* EventBus.Subscribe.
SubscribeUpTo(maxChans, instanceID) ==
    /\ ~panicked
    /\ Len(chans) < maxChans
    /\ chans' = Append(chans, <<>>)
    /\ subs' = [subs EXCEPT ![instanceID] = Len(chans) + 1]
    /\ returned' = NoReturn
    /\ UNCHANGED <<agent, config, now, defs, insts, tokensIssued, tasks, monitor, probe,
                   closed, panicked>>

Subscribe(instanceID) == SubscribeUpTo(MaxChans, instanceID)

Tick ==
    /\ now < MaxTime
    /\ now' = now + 1
    /\ returned' = NoReturn
    /\ UNCHANGED <<agent, config, defs, insts, tokensIssued, subs, chans, tasks, monitor, probe,
                   closed, panicked>>

Next ==
    \/ \E t \in TaskIds : Handshake(t)
    \/ \E t \in TaskIds : HandshakeUpsertDefinition(t)
    \/ \E t \in TaskIds : HandshakeCreateInstance(t)
    \/ \E t \in TaskIds : HandshakeSendBroadcast(t)
    \/ \E t \in TaskIds : Heartbeat(t)
    \/ \E t \in TaskIds : HeartbeatUpdateInstance(t)
    \/ SweepBegin
    \/ SweepInstance
    \/ \E id \in SessionIds : Subscribe(id)
    \/ Tick

Spec == Init /\ [][Next]_vars

(***************************************************************************)
(* EventBus.SendDirect and EventBus.Unsubscribe.  SendDirect reads the     *)
(* channel under the read lock, releases the lock and then sends in a      *)
(* select with a default branch; closed is the set of channels closed by   *)
(* Unsubscribe, and a send on a closed channel panics, which ends the      *)
(* process (panicked).                                                     *)
(***************************************************************************)
EventTypeShutdown == "shutdown"
EventTypeConfigUpdate == "config_update"
ErrPluginNotFound == "plugin_not_found"
ErrChannelFull == "channel_full"

\* Mutant: the select has no default branch and the buffer does not bound
\* the send.
ChanSend_Unbounded(queues, shut, c, event) ==
    IF c \in shut THEN [err |-> "panic", queues |-> queues]
    ELSE [err |-> "", queues |-> [queues EXCEPT ![c] = Append(@, event)]]

\* select { case ch <- event: ...; default: ... } on channel c.
ChanSend(queues, shut, c, event) ==
    IF c \in shut THEN [err |-> "panic", queues |-> queues]
    ELSE IF Len(queues[c]) < SubscriberQueueCap
    THEN [err |-> "", queues |-> [queues EXCEPT ![c] = Append(@, event)]]
    ELSE [err |-> ErrChannelFull, queues |-> queues]

\* The error SendDirect returns.
BusError(code) == [NoResp EXCEPT !.accepted = (code = ""), !.error = code]

\* Mutant: an id without a channel is answered as a delivery.
SendDirect_IgnoreMissing(t) ==
    /\ ~panicked
    /\ CanStart(t)
    /\ \E id \in SessionIds :
          LET started == [IdleTask EXCEPT !.kind = "send_direct",
                                          !.req.session_id = id]
          IN  IF subs[id] = 0
              THEN /\ returned' = Return(started, BusError(""))
                   /\ UNCHANGED tasks
              ELSE /\ tasks' = [tasks EXCEPT
                          ![t] = [started EXCEPT !.pc = "send",
                                                 !.ch = subs[id]]]
                   /\ returned' = NoReturn
    /\ UNCHANGED <<agent, config, now, defs, insts, tokensIssued, subs, chans, monitor,
                   probe, closed, panicked>>

\* SendDirect, step 1: the lookup under the read lock.
SendDirect(t) ==
    /\ ~panicked
    /\ CanStart(t)
    /\ \E id \in SessionIds :
          LET started == [IdleTask EXCEPT !.kind = "send_direct",
                                          !.req.session_id = id]
          IN  IF subs[id] = 0
              THEN /\ returned' = Return(started, BusError(ErrPluginNotFound))
                   /\ UNCHANGED tasks
              ELSE /\ tasks' = [tasks EXCEPT
                          ![t] = [started EXCEPT !.pc = "send",
                                                 !.ch = subs[id]]]
                   /\ returned' = NoReturn
    /\ UNCHANGED <<agent, config, now, defs, insts, tokensIssued, subs, chans, monitor,
                   probe, closed, panicked>>

\* SendDirect, step 2: the select on the channel read in step 1.
SendDirectSend(t) ==
    /\ ~panicked
    /\ tasks[t].kind = "send_direct" /\ tasks[t].pc = "send"
    /\ LET sent == ChanSend(chans, closed, tasks[t].ch,
                       [type |-> EventTypeConfigUpdate, data |-> ""])
       IN  /\ chans' = sent.queues
           /\ panicked' = (sent.err = "panic")
           /\ returned' = Return(tasks[t], BusError(sent.err))
    /\ tasks' = [tasks EXCEPT ![t] = DoneTask]
    /\ UNCHANGED <<agent, config, now, defs, insts, tokensIssued, subs, monitor, probe,
                   closed>>

\* Mutant: the entry is deleted and its channel is left open.
Unsubscribe_KeepOpen(instanceID) ==
    /\ ~panicked
    /\ subs' = [subs EXCEPT ![instanceID] = 0]
    /\ returned' = [NoReturn EXCEPT !.kind = "unsubscribe",
                                    !.req.session_id = instanceID]
    /\ UNCHANGED <<agent, config, now, defs, insts, tokensIssued, chans, tasks, monitor,
                   probe, closed, panicked>>

\* EventBus.Unsubscribe: close and delete under the write lock.
Unsubscribe(instanceID) ==
    /\ ~panicked
    /\ IF subs[instanceID] # 0
       THEN /\ closed' = closed \cup {subs[instanceID]}
            /\ subs' = [subs EXCEPT ![instanceID] = 0]
       ELSE UNCHANGED <<closed, subs>>
    /\ returned' = [NoReturn EXCEPT !.kind = "unsubscribe",
                                    !.req.session_id = instanceID]
    /\ UNCHANGED <<agent, config, now, defs, insts, tokensIssued, chans, tasks, monitor,
                   probe, panicked>>

\* The goroutines of the requests served so far have ended; the next
\* requests are served by new ones.
NewGoroutines ==
    /\ ~panicked
    /\ tasks[1].pc # "idle"
    /\ \A t \in TaskIds : tasks[t].pc \in {"idle", "done"}
    /\ tasks' = [t \in TaskIds |-> IdleTask]
    /\ returned' = NoReturn
    /\ UNCHANGED <<agent, config, now, defs, insts, tokensIssued, subs, chans, monitor,
                   probe, closed, panicked>>

\* Mutant: the receiver is handed the newest event of the queue.
Receive_Newest(c) ==
    /\ ~panicked
    /\ c \in DOMAIN chans
    /\ chans[c] # <<>> \/ c \in closed
    /\ IF chans[c] # <<>>
       THEN /\ chans' = [chans EXCEPT ![c] = SubSeq(@, 1, Len(@) - 1)]
            /\ returned' = [NoReturn EXCEPT !.kind = "receive",
                                            !.resp.accepted = TRUE,
                                            !.event = chans[c][Len(chans[c])]]
       ELSE /\ chans' = chans
            /\ returned' = [NoReturn EXCEPT !.kind = "receive",
                                            !.resp.error = "closed"]
    /\ UNCHANGED <<agent, config, now, defs, insts, tokensIssued, subs, tasks, monitor,
                   probe, closed, panicked>>

\* The holder of the channel Subscribe returned receives from it
\* (event, ok := <-ch): the oldest event queued, or ok = false once the
\* channel is closed and empty; on an open empty channel it blocks.
Receive(c) ==
    /\ ~panicked
    /\ c \in DOMAIN chans
    /\ chans[c] # <<>> \/ c \in closed
    /\ IF chans[c] # <<>>
       THEN /\ chans' = [chans EXCEPT ![c] = Tail(@)]
            /\ returned' = [NoReturn EXCEPT !.kind = "receive",
                                            !.resp.accepted = TRUE,
                                            !.event = Head(chans[c])]
       ELSE /\ chans' = chans
            /\ returned' = [NoReturn EXCEPT !.kind = "receive",
                                            !.resp.error = "closed"]
    /\ UNCHANGED <<agent, config, now, defs, insts, tokensIssued, subs, tasks, monitor,
                   probe, closed, panicked>>

(***************************************************************************)
(* SpecBus: the event bus alone, under Subscribe, Unsubscribe, SendDirect  *)
(* from concurrent goroutines and a receiver.                              *)
(***************************************************************************)
InitBus ==
    /\ config = [enabled |-> FALSE, pluginToken |-> "", allowedPlugins |-> <<>>,
                 heartbeatTimeout |-> "30s"]
    /\ now = 0
    /\ defs = [p \in PluginIds |-> NoDef]
    /\ insts = {}
    /\ tokensIssued = 0
    /\ subs = [id \in SessionIds |-> 0]
    /\ chans = <<>>
    /\ tasks = [t \in TaskIds |-> IdleTask]
    /\ returned = NoReturn
    /\ monitor = IdleMonitor
    /\ probe = NoProbe
    /\ closed = {}
    /\ panicked = FALSE
    /\ agent = NoAgent

NextBus ==
    \/ \E id \in SessionIds : Subscribe(id)
    \/ \E id \in SessionIds : Unsubscribe(id)
    \/ \E t \in TaskIds : SendDirect(t)
    \/ \E t \in TaskIds : SendDirectSend(t)
    \/ \E c \in 1..MaxChans : Receive(c)
    \/ NewGoroutines

SpecBus == InitBus /\ [][NextBus]_vars

(***************************************************************************)
(* EventBus.SendBroadcast, called by the producers themselves              *)
(* (PluginManager.BroadcastEvent, Handshake, DisconnectPlugin, Stop): the  *)
(* copy of the subscriber table under the read lock, then one select with  *)
(* a default branch per copied entry, in the order of a map iteration.     *)
(* No statement sends to eb.broadcast, so the goroutine of EventBus.Start  *)
(* never runs the body of its loop.                                        *)
(***************************************************************************)
EventTypeRestart == "restart"

BroadcastEvents ==
    {[type |-> ty, data |-> ""] : ty \in {EventTypeShutdown, EventTypeRestart}}

\* What one iteration of the loop of SendBroadcast does for the entry
\* (id, channel): delivered, dropped with a Warn (channel_full), or a panic.
BroadcastLog(task, id, err) ==
    [Return(task, BusError(err)) EXCEPT !.kind = "broadcast_send",
                                        !.req.session_id = id]

\* SendBroadcast, step 1: the snapshot.  With no subscriber the call is over.
SendBroadcastBegin(t) ==
    /\ ~panicked
    /\ CanStart(t)
    /\ \E event \in BroadcastEvents :
          LET snapshot == {<<id, subs[id]>> : id \in Subscribed}
              started == [IdleTask EXCEPT !.kind = "send_broadcast",
                                          !.event = event]
          IN  /\ tasks' = [tasks EXCEPT
                     ![t] = IF snapshot = {} THEN DoneTask
                            ELSE [started EXCEPT !.pc = "fanout",
                                                 !.snap = snapshot]]
              /\ returned' = IF snapshot = {} THEN Return(started, BusError(""))
                             ELSE NoReturn
    /\ UNCHANGED <<agent, config, now, defs, insts, tokensIssued, subs, chans, monitor,
                   probe, closed, panicked>>

\* Mutant: the loop ends at the first subscriber whose queue is full.
SendBroadcastSend_AbortOnFull(t) ==
    /\ ~panicked
    /\ tasks[t].kind = "send_broadcast" /\ tasks[t].pc = "fanout"
    /\ \E entry \in tasks[t].snap :
          LET sent == ChanSend(chans, closed, entry[2], tasks[t].event)
              rest == IF sent.err = ErrChannelFull THEN {}
                      ELSE tasks[t].snap \ {entry}
          IN  /\ chans' = sent.queues
              /\ panicked' = (sent.err = "panic")
              /\ returned' = BroadcastLog(tasks[t], entry[1], sent.err)
              /\ tasks' = [tasks EXCEPT
                     ![t] = IF rest = {} THEN DoneTask
                            ELSE [@ EXCEPT !.snap = rest]]
    /\ UNCHANGED <<agent, config, now, defs, insts, tokensIssued, subs, monitor, probe,
                   closed>>

\* SendBroadcast, step 2: the select on one entry of the snapshot; after
\* the last entry the call is over.
SendBroadcastSend(t) ==
    /\ ~panicked
    /\ tasks[t].kind = "send_broadcast" /\ tasks[t].pc = "fanout"
    /\ \E entry \in tasks[t].snap :
          LET sent == ChanSend(chans, closed, entry[2], tasks[t].event)
              rest == tasks[t].snap \ {entry}
          IN  /\ chans' = sent.queues
              /\ panicked' = (sent.err = "panic")
              /\ returned' = BroadcastLog(tasks[t], entry[1], sent.err)
              /\ tasks' = [tasks EXCEPT
                     ![t] = IF rest = {} THEN DoneTask
                            ELSE [@ EXCEPT !.snap = rest]]
    /\ UNCHANGED <<agent, config, now, defs, insts, tokensIssued, subs, monitor, probe,
                   closed>>

\* Mutant: Stop leaves the subscriber table as it is.
EventBusStop_KeepTable ==
    /\ ~panicked
    /\ RelayChan \notin closed
    /\ closed' = closed \cup {subs[id] : id \in Subscribed} \cup {RelayChan}
    /\ returned' = [NoReturn EXCEPT !.kind = "stop"]
    /\ UNCHANGED <<agent, config, now, defs, insts, tokensIssued, subs, chans, tasks,
                   monitor, probe, panicked>>

\* EventBus.Stop, under the write lock: every mapped channel is closed and
\* deleted, then eb.broadcast is closed.  Stop is called once (main).
EventBusStop ==
    /\ ~panicked
    /\ RelayChan \notin closed
    /\ closed' = closed \cup {subs[id] : id \in Subscribed} \cup {RelayChan}
    /\ subs' = [id \in SessionIds |-> 0]
    /\ returned' = [NoReturn EXCEPT !.kind = "stop"]
    /\ UNCHANGED <<agent, config, now, defs, insts, tokensIssued, chans, tasks, monitor,
                   probe, panicked>>

\* The callers of Subscribe in SpecCast: Stop is the last call of the
\* bus's life (PluginManager.Stop at shutdown), and no id is subscribed
\* to a bus that has been stopped.
SubscribeWhileRunning(instanceID) ==
    /\ RelayChan \notin closed
    /\ SubscribeUpTo(MaxCastChans, instanceID)

(***************************************************************************)
(* SpecCast: the event bus under broadcasts and direct sends from          *)
(* concurrent producers, Subscribe, Unsubscribe, Stop and receivers.  It   *)
(* starts from a new bus, or from a bus on which inst-a is subscribed and  *)
(* 50 direct sends have filled its queue.                                  *)
(***************************************************************************)
FullQueue ==
    [i \in 1..SubscriberQueueCap |-> [type |-> EventTypeConfigUpdate, data |-> ""]]

InitCast ==
    /\ config = [enabled |-> FALSE, pluginToken |-> "", allowedPlugins |-> <<>>,
                 heartbeatTimeout |-> "30s"]
    /\ now = 0
    /\ defs = [p \in PluginIds |-> NoDef]
    /\ insts = {}
    /\ tokensIssued = 0
    /\ \/ /\ subs = [id \in SessionIds |-> 0]
          /\ chans = <<>>
       \/ /\ subs = [id \in SessionIds |-> IF id = "inst-a" THEN 1 ELSE 0]
          /\ chans = <<FullQueue>>
    /\ tasks = [t \in TaskIds |-> IdleTask]
    /\ returned = NoReturn
    /\ monitor = IdleMonitor
    /\ probe = NoProbe
    /\ closed = {}
    /\ panicked = FALSE
    /\ agent = NoAgent

NextCast ==
    \/ \E id \in SessionIds : SubscribeWhileRunning(id)
    \/ \E id \in SessionIds : Unsubscribe(id)
    \/ \E t \in TaskIds : SendDirect(t)
    \/ \E t \in TaskIds : SendDirectSend(t)
    \/ \E t \in TaskIds : SendBroadcastBegin(t)
    \/ \E t \in TaskIds : SendBroadcastSend(t)
    \/ \E c \in 1..MaxCastChans : Receive(c)
    \/ EventBusStop

SpecCast == InitCast /\ [][NextCast]_vars

(***************************************************************************)
(* The client session agent, sdk.Plugin.  Its coordinator is on the other  *)
(* end of an HTTP connection: a call gets an answer, or ends with an       *)
(* error (transport failure, the deadline of its context, cancellation).   *)
(***************************************************************************)
StartIds == 1..MaxStarts

\* What a call or a loop of the agent reports: the return of Start or Stop,
\* the heartbeat request a tick issues, the result of a heartbeat call.
AgentLog(kind, sessionID, authToken, ok, error) ==
    [NoReturn EXCEPT !.kind = kind,
                     !.req.session_id = sessionID,
                     !.req.auth_token = authToken,
                     !.resp.accepted = ok,
                     !.resp.error = error]

LoopsAlive(i) ==
    \/ agent.loops[i].hb \in {"select", "call"}
    \/ agent.loops[i].ev = "select"

\* Plugin.Start, up to the handshake call: a new PluginClient replaces
\* p.client.
PluginStart ==
    /\ agent.call = "none"
    /\ agent.starts < MaxStarts
    /\ agent' = [agent EXCEPT
                    !.client = [session_id |-> NoSession, auth_token |-> NoToken],
                    !.call = "start",
                    !.starts = @ + 1]
    /\ returned' = NoReturn
    /\ UNCHANGED coreVars

\* Mutant: the loops are spawned whatever the handshake returned.
PluginStartReturns_SpawnAlways ==
    /\ agent.call = "start"
    /\ \E outcome \in {"accepted", "rejected", "error"},
          sessionID \in SessionIds, authToken \in AuthTokens \ {NoToken} :
          /\ outcome # "error" => ~agent.hung
          /\ agent' = [agent EXCEPT
                          !.call = "none",
                          !.client = IF outcome = "accepted"
                                     THEN [session_id |-> sessionID,
                                           auth_token |-> authToken]
                                     ELSE @,
                          !.wg = @ + 1 + (IF agent.handler THEN 1 ELSE 0),
                          !.loops[agent.starts] =
                              [NoLoops EXCEPT
                                 !.hb = "select",
                                 !.ev = IF agent.handler THEN "select"
                                        ELSE "off"]]
          /\ returned' = IF outcome = "accepted"
                         THEN AgentLog("start", sessionID, authToken, TRUE, "")
                         ELSE AgentLog("start", NoSession, NoToken, FALSE,
                                       IF outcome = "rejected"
                                       THEN "handshake rejected"
                                       ELSE "transport error")
    /\ UNCHANGED coreVars

\* Plugin.Start, from the return of the handshake call: an error or a
\* rejection is returned; on acceptance the session is stored and the loops
\* are spawned (wg.Add before each go).
PluginStartReturns ==
    /\ agent.call = "start"
    /\ \E outcome \in {"accepted", "rejected", "error"},
          sessionID \in SessionIds, authToken \in AuthTokens \ {NoToken} :
          /\ outcome # "error" => ~agent.hung
          /\ IF outcome = "accepted"
             THEN /\ agent' = [agent EXCEPT
                          !.call = "none",
                          !.client = [session_id |-> sessionID,
                                      auth_token |-> authToken],
                          !.wg = @ + 1 + (IF agent.handler THEN 1 ELSE 0),
                          !.loops[agent.starts] =
                              [NoLoops EXCEPT
                                 !.hb = "select",
                                 !.ev = IF agent.handler THEN "select"
                                        ELSE "off"]]
                  /\ returned' = AgentLog("start", sessionID, authToken, TRUE, "")
             ELSE /\ agent' = [agent EXCEPT !.call = "none"]
                  /\ returned' = AgentLog("start", NoSession, NoToken, FALSE,
                                          IF outcome = "rejected"
                                          THEN "handshake rejected"
                                          ELSE "transport error")
    /\ UNCHANGED coreVars

\* The ticker of a heartbeat loop; ticker.C buffers one tick.
AgentTickerFire(i) ==
    /\ agent.loops[i].hb \in {"select", "call"}
    /\ ~agent.loops[i].tick
    /\ agent' = [agent EXCEPT !.loops[i].tick = TRUE]
    /\ returned' = NoReturn
    /\ UNCHANGED coreVars

\* heartbeatLoop, case <-ticker.C: the heartbeat call is made with the
\* fields of p.client.
HeartbeatLoopTick(i) ==
    /\ agent.loops[i].hb = "select"
    /\ agent.loops[i].tick
    /\ agent' = [agent EXCEPT
                    !.loops[i].tick = FALSE,
                    !.loops[i].hb = "call",
                    !.loops[i].session_id = agent.client.session_id,
                    !.loops[i].auth_token = agent.client.auth_token]
    /\ returned' = AgentLog("heartbeat_call", agent.client.session_id,
                            agent.client.auth_token, FALSE, "")
    /\ UNCHANGED coreVars

\* Mutant: the heartbeat call has no deadline and ignores cancellation.
HeartbeatLoopReturn_Unbounded(i) ==
    /\ agent.loops[i].hb = "call"
    /\ ~agent.hung
    /\ \E outcome \in {"ok", "rejected", "error"} :
          returned' = AgentLog("heartbeat_result", agent.loops[i].session_id,
                               agent.loops[i].auth_token, outcome = "ok", outcome)
    /\ agent' = [agent EXCEPT !.loops[i].hb = "select",
                              !.loops[i].session_id = NoSession,
                              !.loops[i].auth_token = NoToken]
    /\ UNCHANGED coreVars

\* Mutant: the loop returns when a heartbeat fails.
HeartbeatLoopReturn_GiveUp(i) ==
    /\ agent.loops[i].hb = "call"
    /\ \E outcome \in {"ok", "rejected", "error"} :
          /\ outcome # "error" => ~agent.hung
          /\ returned' = AgentLog("heartbeat_result", agent.loops[i].session_id,
                                  agent.loops[i].auth_token, outcome = "ok",
                                  outcome)
          /\ agent' = [agent EXCEPT
                          !.loops[i].hb = IF outcome = "ok" THEN "select"
                                          ELSE "exited",
                          !.wg = IF outcome = "ok" THEN @ ELSE @ - 1,
                          !.loops[i].session_id = NoSession,
                          !.loops[i].auth_token = NoToken]
    /\ UNCHANGED coreVars

\* heartbeatLoop, the return of the heartbeat call: an answer of the
\* coordinator (ok or not), or an error, which the 5s deadline derived
\* from p.ctx produces at the latest; the loop goes back to its select
\* either way.
HeartbeatLoopReturn(i) ==
    /\ agent.loops[i].hb = "call"
    /\ \E outcome \in {"ok", "rejected", "error"} :
          /\ outcome # "error" => ~agent.hung
          /\ returned' = AgentLog("heartbeat_result", agent.loops[i].session_id,
                                  agent.loops[i].auth_token, outcome = "ok",
                                  outcome)
    /\ agent' = [agent EXCEPT !.loops[i].hb = "select",
                              !.loops[i].session_id = NoSession,
                              !.loops[i].auth_token = NoToken]
    /\ UNCHANGED coreVars

\* heartbeatLoop, case <-p.ctx.Done(): return, with the deferred wg.Done.
HeartbeatLoopExit(i) ==
    /\ agent.loops[i].hb = "select"
    /\ agent.cancelled
    /\ agent' = [agent EXCEPT !.loops[i].hb = "exited",
                              !.loops[i].tick = FALSE,
                              !.wg = @ - 1]
    /\ returned' = NoReturn
    /\ UNCHANGED coreVars

\* eventLoop, case <-p.ctx.Done() (its ticker case does nothing).
EventLoopExit(i) ==
    /\ agent.loops[i].ev = "select"
    /\ agent.cancelled
    /\ agent' = [agent EXCEPT !.loops[i].ev = "exited", !.wg = @ - 1]
    /\ returned' = NoReturn
    /\ UNCHANGED coreVars

\* Plugin.Stop, p.cancel().
PluginStop ==
    /\ agent.call = "none"
    /\ agent' = [agent EXCEPT !.cancelled = TRUE, !.call = "stop"]
    /\ returned' = NoReturn
    /\ UNCHANGED coreVars

\* Mutant: Stop returns without waiting.
PluginStopReturns_NoWait ==
    /\ agent.call = "stop"
    /\ agent' = [agent EXCEPT !.call = "none"]
    /\ returned' = AgentLog("stop", NoSession, NoToken, TRUE, "")
    /\ UNCHANGED coreVars

\* Plugin.Stop, the return of p.wg.Wait().
PluginStopReturns ==
    /\ agent.call = "stop"
    /\ agent.wg = 0
    /\ agent' = [agent EXCEPT !.call = "none"]
    /\ returned' = AgentLog("stop", NoSession, NoToken, TRUE, "")
    /\ UNCHANGED coreVars

\* The coordinator stops answering.
CoordinatorHangs ==
    /\ ~agent.hung
    /\ agent' = [agent EXCEPT !.hung = TRUE]
    /\ returned' = NoReturn
    /\ UNCHANGED coreVars

(***************************************************************************)
(* SpecAgent: one agent whose owner follows the agent's state machine,     *)
(* Start from Disconnected (no loop of an earlier Start alive) and calls   *)
(* one after the other; the coordinator answers, or is hung.               *)
(***************************************************************************)
StartWhenDisconnected ==
    /\ \A i \in StartIds : ~LoopsAlive(i)
    /\ PluginStart

InitAgent ==
    /\ config = [enabled |-> FALSE, pluginToken |-> "", allowedPlugins |-> <<>>,
                 heartbeatTimeout |-> "30s"]
    /\ now = 0
    /\ defs = [p \in PluginIds |-> NoDef]
    /\ insts = {}
    /\ tokensIssued = 0
    /\ subs = [id \in SessionIds |-> 0]
    /\ chans = <<>>
    /\ tasks = [t \in TaskIds |-> IdleTask]
    /\ returned = NoReturn
    /\ monitor = IdleMonitor
    /\ probe = NoProbe
    /\ closed = {}
    /\ panicked = FALSE
    /\ agent \in {[NoAgent EXCEPT !.handler = h, !.hung = g] : h, g \in BOOLEAN}

NextAgent ==
    \/ StartWhenDisconnected
    \/ PluginStartReturns
    \/ \E i \in StartIds : AgentTickerFire(i)
    \/ \E i \in StartIds : HeartbeatLoopTick(i)
    \/ \E i \in StartIds : HeartbeatLoopReturn(i)
    \/ \E i \in StartIds : HeartbeatLoopExit(i)
    \/ \E i \in StartIds : EventLoopExit(i)
    \/ PluginStop
    \/ PluginStopReturns
    \/ CoordinatorHangs

SpecAgent == InitAgent /\ [][NextAgent]_vars

\* SpecAgentLive: SpecAgent under the scheduling of the Go runtime.  A
\* heartbeat call returns (its context ends after 5s at the latest), a
\* runnable goroutine runs, and a select that is entered again and again
\* with <-p.ctx.Done() ready takes that case at some point (the runtime
\* picks among the ready cases at random).
SpecAgentLive ==
    /\ InitAgent /\ [][NextAgent]_vars
    /\ \A i \in StartIds : WF_vars(HeartbeatLoopReturn(i))
    /\ \A i \in StartIds : SF_vars(HeartbeatLoopExit(i))
    /\ \A i \in StartIds : WF_vars(EventLoopExit(i))
    /\ WF_vars(PluginStopReturns)

(***************************************************************************)
(* SpecAgentAny: one agent whose owner calls Start and Stop one after the  *)
(* other in any order: Start after a Stop, and Start while the loops of an *)
(* earlier Start run.                                                      *)
(***************************************************************************)
NextAgentAny ==
    \/ PluginStart
    \/ PluginStartReturns
    \/ \E i \in StartIds : AgentTickerFire(i)
    \/ \E i \in StartIds : HeartbeatLoopTick(i)
    \/ \E i \in StartIds : HeartbeatLoopReturn(i)
    \/ \E i \in StartIds : HeartbeatLoopExit(i)
    \/ \E i \in StartIds : EventLoopExit(i)
    \/ PluginStop
    \/ PluginStopReturns
    \/ CoordinatorHangs

SpecAgentAny == InitAgent /\ [][NextAgentAny]_vars

(***************************************************************************)
(* PluginManager.SetInstanceEnabled: repo.GetInstance, the change on the   *)
(* copy, eventBus.SendDirect when the instance is disabled (its error is   *)
(* dropped), repo.UpdateInstance, whose error is the result.               *)
(***************************************************************************)
SetInstanceEnabled(t) ==
    /\ CanStart(t)
    /\ \E id \in SessionIds, enabled \in BOOLEAN :
          LET inst == GetInstance(insts, id)
              started == [IdleTask EXCEPT !.kind = "set_instance_enabled",
                                          !.req.session_id = id]
          IN  IF inst = NoInst
              THEN /\ returned' = Return(started,
                                      [NoResp EXCEPT !.error = "record not found"])
                   /\ UNCHANGED tasks
              ELSE /\ tasks' = [tasks EXCEPT
                          ![t] = [started EXCEPT
                                    !.pc = IF enabled THEN "save" ELSE "lookup",
                                    !.instance =
                                        [inst EXCEPT
                                           !.enabled = enabled,
                                           !.status =
                                               IF enabled THEN inst.status
                                               ELSE PluginStatusStopped]]]
                   /\ returned' = NoReturn
    /\ UNCHANGED <<agent, config, now, defs, insts, tokensIssued, subs, chans, monitor,
                   probe, closed, panicked>>

\* The lookup of the SendDirect made for a disabled instance.
SetInstanceEnabledLookup(t) ==
    /\ tasks[t].kind = "set_instance_enabled" /\ tasks[t].pc = "lookup"
    /\ LET ch == subs[tasks[t].req.session_id]
       IN  tasks' = [tasks EXCEPT ![t].pc = IF ch = 0 THEN "save" ELSE "send",
                                  ![t].ch = ch]
    /\ returned' = NoReturn
    /\ UNCHANGED <<agent, config, now, defs, insts, tokensIssued, subs, chans, monitor,
                   probe, closed, panicked>>

\* The select of that SendDirect.
SetInstanceEnabledSend(t) ==
    /\ tasks[t].kind = "set_instance_enabled" /\ tasks[t].pc = "send"
    /\ LET sent == ChanSend(chans, closed, tasks[t].ch,
                       [type |-> EventTypeShutdown,
                        data |-> "instance disabled"])
       IN  /\ chans' = sent.queues
           /\ panicked' = (sent.err = "panic")
    /\ tasks' = [tasks EXCEPT ![t].pc = "save", ![t].ch = 0]
    /\ returned' = NoReturn
    /\ UNCHANGED <<agent, config, now, defs, insts, tokensIssued, subs, monitor, probe,
                   closed>>

\* repo.UpdateInstance(inst): db.Save of the copy.
SetInstanceEnabledSave(t) ==
    /\ tasks[t].kind = "set_instance_enabled" /\ tasks[t].pc = "save"
    /\ \E gatewayOk \in BOOLEAN :
          /\ insts' = IF gatewayOk THEN UpdateInstance(insts, tasks[t].instance)
                      ELSE insts
          /\ returned' = Return(tasks[t],
                             [NoResp EXCEPT
                                !.accepted = gatewayOk,
                                !.error = IF gatewayOk THEN ""
                                          ELSE "gateway error"])
    /\ tasks' = [tasks EXCEPT ![t] = DoneTask]
    /\ UNCHANGED <<agent, config, now, defs, tokensIssued, subs, chans, monitor, probe,
                   closed, panicked>>

(***************************************************************************)
(* heartbeatMonitor: one goroutine, a loop that receives from ticker.C and *)
(* then calls checkHeartbeats.  The ticker fires whatever the loop is      *)
(* doing; its channel holds one tick and a tick that finds it full is      *)
(* dropped.                                                                *)
(***************************************************************************)
TickerFire ==
    /\ ~monitor.ticked
    /\ monitor' = [monitor EXCEPT !.ticked = TRUE]
    /\ returned' = NoReturn
    /\ UNCHANGED <<agent, config, now, defs, insts, tokensIssued, subs, chans, tasks,
                   probe, closed, panicked>>

\* Mutant: every tick starts a sweep of its own (go m.checkHeartbeats()).
SweepBeginOnTick_Overlapping(maxSweeps) ==
    /\ monitor.ticked
    /\ monitor.sweeps < maxSweeps
    /\ monitor' = [monitor EXCEPT
           !.pc = IF insts = {} /\ monitor.pending = {} THEN "idle"
                  ELSE "sweeping",
           !.pending = monitor.pending \cup ListInstances(insts),
           !.cutoff = now - 1,
           !.sweeps = monitor.sweeps + 1,
           !.ticked = FALSE]
    /\ returned' = NoReturn
    /\ UNCHANGED <<agent, config, now, defs, insts, tokensIssued, subs, chans, tasks,
                   probe, closed, panicked>>

\* case <-ticker.C: m.checkHeartbeats()
SweepBeginOnTick(maxSweeps) ==
    /\ monitor.ticked
    /\ SweepBeginUpTo(maxSweeps)

(***************************************************************************)
(* SpecLife: the life of the instances of one plugin with security         *)
(* disabled: handshakes, heartbeats, SetInstanceEnabled calls and the      *)
(* monitor with its ticker, for a configured timeout of "30s" and for      *)
(* none.                                                                   *)
(***************************************************************************)
LifeRequests ==
    {[NoReq EXCEPT !.plugin_id = "p1", !.api_version = CoreAPIVersion]}

InitLife ==
    /\ config \in [enabled : {FALSE}, pluginToken : {""},
                   allowedPlugins : {<<>>}, heartbeatTimeout : {"", "30s"}]
    /\ now = 0
    /\ defs = [p \in PluginIds |-> NoDef]
    /\ insts = {}
    /\ tokensIssued = 0
    /\ subs = [id \in SessionIds |-> 0]
    /\ chans = <<>>
    /\ tasks = [t \in TaskIds |-> IdleTask]
    /\ returned = NoReturn
    /\ monitor = IdleMonitor
    /\ probe = NoProbe
    /\ closed = {}
    /\ panicked = FALSE
    /\ agent = NoAgent

NextLife ==
    \/ \E t \in TaskIds : HandshakeFrom(t, LifeRequests)
    \/ \E t \in TaskIds : HandshakeUpsertDefinition(t)
    \/ \E t \in TaskIds : HandshakeCreateInstance(t)
    \/ \E t \in TaskIds : HandshakeSendBroadcast(t)
    \/ \E t \in TaskIds : Heartbeat(t)
    \/ \E t \in TaskIds : HeartbeatUpdateInstance(t)
    \/ \E t \in TaskIds : SetInstanceEnabled(t)
    \/ \E t \in TaskIds : SetInstanceEnabledLookup(t)
    \/ \E t \in TaskIds : SetInstanceEnabledSend(t)
    \/ \E t \in TaskIds : SetInstanceEnabledSave(t)
    \/ \E id \in SessionIds : Subscribe(id)
    \/ TickerFire
    \/ SweepBeginOnTick(MaxLifeSweeps)
    \/ SweepInstance
    \/ Tick

SpecLife == InitLife /\ [][NextLife]_vars

(***************************************************************************)
(* SpecHeart: one Instance after its handshake.  The state it starts from  *)
(* is the one the handshake {plugin_id: "p1", api_version: "1.0"} leaves   *)
(* when it is accepted at time 0 with session id "inst-a"; from there      *)
(* heartbeats, SetInstanceEnabled calls and the monitor run concurrently.  *)
(***************************************************************************)
AcceptedHandshake ==
    [IdleTask EXCEPT !.kind = "handshake",
                     !.req = [NoReq EXCEPT !.plugin_id = "p1",
                                           !.api_version = CoreAPIVersion],
                     !.sessionID = "inst-a",
                     !.authToken = 1,
                     !.now = 0]

InitHeart ==
    /\ config = [enabled |-> FALSE, pluginToken |-> "", allowedPlugins |-> <<>>,
                 heartbeatTimeout |-> "30s"]
    /\ now = 0
    /\ defs = UpsertDefinition([p \in PluginIds |-> NoDef], "p1",
                               NewDefinition(AcceptedHandshake.req))
    /\ insts = CreateInstance({}, NewInstance(AcceptedHandshake)).rows
    /\ tokensIssued = 1
    /\ subs = [id \in SessionIds |-> 0]
    /\ chans = <<>>
    /\ tasks = [t \in TaskIds |-> IdleTask]
    /\ returned = NoReturn
    /\ monitor = IdleMonitor
    /\ probe = NoProbe
    /\ closed = {}
    /\ panicked = FALSE
    /\ agent = NoAgent

NextHeart ==
    \/ \E t \in TaskIds : Heartbeat(t)
    \/ \E t \in TaskIds : HeartbeatUpdateInstance(t)
    \/ \E t \in TaskIds : SetInstanceEnabled(t)
    \/ \E t \in TaskIds : SetInstanceEnabledLookup(t)
    \/ \E t \in TaskIds : SetInstanceEnabledSend(t)
    \/ \E t \in TaskIds : SetInstanceEnabledSave(t)
    \/ \E id \in SessionIds : Subscribe(id)
    \/ TickerFire
    \/ SweepBeginOnTick(MaxSweeps)
    \/ SweepInstance
    \/ Tick

SpecHeart == InitHeart /\ [][NextHeart]_vars

(***************************************************************************)
(* PluginManager.Stop, called once by main at shutdown while the HTTP      *)
(* server still serves: the shutdown broadcast, eventBus.Stop(), then      *)
(* close(m.stopped).  grpcServer.GracefulStop() between the last two waits *)
(* for gRPC calls only and changes nothing the model holds.  m.stopped is  *)
(* kept in closed under the name StoppedChan.                              *)
(***************************************************************************)
StoppedChan == -3

SystemShutdown == [type |-> EventTypeShutdown, data |-> "system shutting down"]

\* Stop, step 1: SendBroadcast copies the subscriber table under the read
\* lock.
PluginManagerStop(t) ==
    /\ ~panicked
    /\ CanStart(t)
    /\ StoppedChan \notin closed
    /\ \A u \in TaskIds : tasks[u].kind # "manager_stop"
    /\ LET snapshot == {<<id, subs[id]>> : id \in Subscribed}
       IN  tasks' = [tasks EXCEPT
                ![t] = [IdleTask EXCEPT
                          !.kind = "manager_stop",
                          !.event = SystemShutdown,
                          !.snap = snapshot,
                          !.pc = IF snapshot = {} THEN "bus_stop"
                                 ELSE "fanout"]]
    /\ returned' = NoReturn
    /\ UNCHANGED <<agent, config, now, defs, insts, tokensIssued, subs, chans, monitor,
                   probe, closed, panicked>>

\* Stop, step 2: the select of SendBroadcast on one entry of the copy.
PluginManagerStopSend(t) ==
    /\ ~panicked
    /\ tasks[t].kind = "manager_stop" /\ tasks[t].pc = "fanout"
    /\ \E entry \in tasks[t].snap :
          LET sent == ChanSend(chans, closed, entry[2], tasks[t].event)
              rest == tasks[t].snap \ {entry}
          IN  /\ chans' = sent.queues
              /\ panicked' = (sent.err = "panic")
              /\ returned' = BroadcastLog(tasks[t], entry[1], sent.err)
              /\ tasks' = [tasks EXCEPT
                     ![t].snap = rest,
                     ![t].pc = IF rest = {} THEN "bus_stop" ELSE "fanout"]
    /\ UNCHANGED <<agent, config, now, defs, insts, tokensIssued, subs, monitor, probe,
                   closed>>

\* Stop, step 3: m.eventBus.Stop().
PluginManagerStopBus(t) ==
    /\ ~panicked
    /\ tasks[t].kind = "manager_stop" /\ tasks[t].pc = "bus_stop"
    /\ closed' = closed \cup {subs[id] : id \in Subscribed} \cup {RelayChan}
    /\ subs' = [id \in SessionIds |-> 0]
    /\ tasks' = [tasks EXCEPT ![t].pc = "close_stopped"]
    /\ returned' = [NoReturn EXCEPT !.kind = "stop"]
    /\ UNCHANGED <<agent, config, now, defs, insts, tokensIssued, chans, monitor, probe,
                   panicked>>

\* Stop, step 4: close(m.stopped) and the return.
PluginManagerStopReturns(t) ==
    /\ tasks[t].kind = "manager_stop" /\ tasks[t].pc = "close_stopped"
    /\ closed' = closed \cup {StoppedChan}
    /\ tasks' = [tasks EXCEPT ![t] = DoneTask]
    /\ returned' = Return(tasks[t], NoResp)
    /\ UNCHANGED <<agent, config, now, defs, insts, tokensIssued, subs, chans, monitor,
                   probe, panicked>>

\* heartbeatMonitor, case <-m.stopped: return.  The select takes any case
\* that is ready, so a tick that is ready too may be taken instead.
HeartbeatMonitorReturns ==
    /\ monitor.pc = "idle"
    /\ StoppedChan \in closed
    /\ monitor' = [monitor EXCEPT !.pc = "exited"]
    /\ returned' = [NoReturn EXCEPT !.kind = "monitor_exit"]
    /\ UNCHANGED <<agent, config, now, defs, insts, tokensIssued, subs, chans, tasks,
                   probe, closed, panicked>>

\* The ticker until the monitor's deferred ticker.Stop().
TickerFireUntilStopped ==
    /\ monitor.pc # "exited"
    /\ TickerFire

(***************************************************************************)
(* SpecStop: the shutdown of a coordinator with security disabled:         *)
(* handshakes of one plugin, subscriptions and receivers, the monitor with *)
(* its ticker, and one call of PluginManager.Stop.                         *)
(***************************************************************************)
InitStop ==
    /\ config = [enabled |-> FALSE, pluginToken |-> "", allowedPlugins |-> <<>>,
                 heartbeatTimeout |-> "30s"]
    /\ now = 0
    /\ defs = [p \in PluginIds |-> NoDef]
    /\ insts = {}
    /\ tokensIssued = 0
    /\ subs = [id \in SessionIds |-> 0]
    /\ chans = <<>>
    /\ tasks = [t \in TaskIds |-> IdleTask]
    /\ returned = NoReturn
    /\ monitor = IdleMonitor
    /\ probe = NoProbe
    /\ closed = {}
    /\ panicked = FALSE
    /\ agent = NoAgent

NextStop ==
    \/ \E t \in TaskIds : HandshakeFrom(t, LifeRequests)
    \/ \E t \in TaskIds : HandshakeUpsertDefinition(t)
    \/ \E t \in TaskIds : HandshakeCreateInstance(t)
    \/ \E t \in TaskIds : HandshakeSendBroadcast(t)
    \/ \E id \in SessionIds : SubscribeWhileRunning(id)
    \/ \E c \in 1..MaxCastChans : Receive(c)
    \/ \E t \in TaskIds : PluginManagerStop(t)
    \/ \E t \in TaskIds : PluginManagerStopSend(t)
    \/ \E t \in TaskIds : PluginManagerStopBus(t)
    \/ \E t \in TaskIds : PluginManagerStopReturns(t)
    \/ TickerFireUntilStopped
    \/ SweepBeginOnTick(MaxSweeps)
    \/ SweepInstance
    \/ HeartbeatMonitorReturns
    \/ Tick

SpecStop == InitStop /\ [][NextStop]_vars

(***************************************************************************)
(* SpecDefs: the Definition of one plugin under handshakes that differ in  *)
(* version and capabilities, and under SetDefinitionEnabled.               *)
(***************************************************************************)
PluginVersions == {"", "0.1", "0.2"}
CapabilityLists == {<<>>, <<"events">>}

DefRequests ==
    {[NoReq EXCEPT !.plugin_id = "p1", !.api_version = CoreAPIVersion,
                   !.version = v, !.capabilities = c] :
        v \in PluginVersions, c \in CapabilityLists}

\* PluginManager.SetDefinitionEnabled: one UPDATE statement, whose error is
\* the result.
SetDefinitionEnabled(id, enabled) ==
    /\ \E gatewayOk \in BOOLEAN :
          /\ defs' = IF gatewayOk THEN SetDefinitionEnabledRow(defs, id, enabled)
                     ELSE defs
          /\ returned' = [NoReturn EXCEPT
                             !.kind = "set_definition_enabled",
                             !.req.plugin_id = id,
                             !.resp.accepted = gatewayOk,
                             !.resp.error = IF gatewayOk THEN ""
                                            ELSE "gateway error"]
    /\ UNCHANGED <<agent, config, now, insts, tokensIssued, subs, chans, tasks, monitor,
                   probe, closed, panicked>>

InitDefs ==
    /\ config = [enabled |-> FALSE, pluginToken |-> "", allowedPlugins |-> <<>>,
                 heartbeatTimeout |-> "30s"]
    /\ now = 0
    /\ defs = [p \in PluginIds |-> NoDef]
    /\ insts = {}
    /\ tokensIssued = 0
    /\ subs = [id \in SessionIds |-> 0]
    /\ chans = <<>>
    /\ tasks = [t \in TaskIds |-> IdleTask]
    /\ returned = NoReturn
    /\ monitor = IdleMonitor
    /\ probe = NoProbe
    /\ closed = {}
    /\ panicked = FALSE
    /\ agent = NoAgent

NextDefs ==
    \/ \E t \in TaskIds : HandshakeFrom(t, DefRequests)
    \/ \E t \in TaskIds : HandshakeUpsertDefinition(t)
    \/ \E t \in TaskIds : HandshakeCreateInstance(t)
    \/ \E t \in TaskIds : HandshakeSendBroadcast(t)
    \/ \E id \in PluginIds, enabled \in BOOLEAN : SetDefinitionEnabled(id, enabled)

SpecDefs == InitDefs /\ [][NextDefs]_vars

(***************************************************************************)
(* SpecCompat: isAPIVersionCompatible and the version step of the          *)
(* handshake on every pair of version strings up to MaxVerLen characters.  *)
(***************************************************************************)
OpenConfig == [enabled |-> FALSE, pluginToken |-> "", allowedPlugins |-> <<>>,
               heartbeatTimeout |-> "30s"]

InitCompat ==
    /\ config = OpenConfig
    /\ now = 0
    /\ defs = [p \in PluginIds |-> NoDef]
    /\ insts = {}
    /\ tokensIssued = 0
    /\ subs = [id \in SessionIds |-> 0]
    /\ chans = <<>>
    /\ tasks = [t \in TaskIds |-> IdleTask]
    /\ returned = NoReturn
    /\ monitor = IdleMonitor
    /\ closed = {}
    /\ panicked = FALSE
    /\ agent = NoAgent
    /\ probe \in {[NoProbe EXCEPT !.pc = "ready", !.plugin = p, !.core = c] :
                     p \in VersionStrings, c \in VersionStrings}

\* A call of isAPIVersionCompatible(plugin, core).
CompatCall ==
    /\ probe.pc = "ready"
    /\ probe' = [probe EXCEPT
           !.pc = "called",
           !.compatible = isAPIVersionCompatible(probe.plugin, probe.core)]
    /\ UNCHANGED <<agent, config, now, defs, insts, tokensIssued, subs, chans, tasks,
                   returned, monitor,
                   closed, panicked>>

\* The validation of a handshake that declares api_version = plugin.
CompatHandshake ==
    /\ probe.pc = "called"
    /\ probe' = [probe EXCEPT
           !.pc = "checked",
           !.error = HandshakeCheck(config,
                         [NoReq EXCEPT !.plugin_id = "p1",
                                       !.api_version = probe.plugin])]
    /\ UNCHANGED <<agent, config, now, defs, insts, tokensIssued, subs, chans, tasks,
                   returned, monitor,
                   closed, panicked>>

NextCompat == CompatCall \/ CompatHandshake

SpecCompat == InitCompat /\ [][NextCompat]_vars

(***************************************************************************)
(* The claims.                                                             *)
(***************************************************************************)
\* The part of a version string before its first ".", the whole string when
\* it has none.
MajorOf(s) ==
    LET n == CHOOSE k \in 0..Len(s) :
                 /\ \A i \in 1..k : s[i] # "."
                 /\ IF k = Len(s) THEN TRUE ELSE s[k + 1] = "."
    IN  SubSeq(s, 1, n)

InFlight(t) == tasks[t].pc \notin {"idle", "done"}

HandshakeReturned == returned.kind = "handshake"

HeartbeatReturned == returned.kind = "heartbeat"

TokenStepFails(req) == config.enabled /\ req.token # config.pluginToken

InAllowList(id) ==
    \E i \in 1..Len(config.allowedPlugins) : config.allowedPlugins[i] = id

\* C1: with security enabled, a handshake whose token is not the configured
\* secret is rejected with accepted=false in the step that examines it, never
\* gets past validation, and that step changes no Definition, no Instance and
\* no subscriber queue.
C1_BadTokenRejected ==
    [][ /\ \A t \in TaskIds :
              (config.enabled /\ tasks'[t].kind = "handshake")
                  => tasks'[t].req.token = config.pluginToken
        /\ (returned'.kind = "handshake" /\ TokenStepFails(returned'.req))
              => /\ ~returned'.resp.accepted
                 /\ returned'.resp.error = "invalid token"
                 /\ tasks' = tasks
                 /\ defs' = defs /\ insts' = insts
                 /\ chans' = chans /\ subs' = subs ]_vars

\* C1 witness: a handshake with a wrong token has just been rejected while an
\* instance is stored and a subscriber is listening.
C1_Witness ==
    /\ HandshakeReturned /\ TokenStepFails(returned.req)
    /\ ~returned.resp.accepted
    /\ insts # {} /\ Subscribed # {}

\* C2 (as claimed): a handshake that passes the token step is rejected by the
\* allow-list step exactly when the allow-list is non-empty and does not hold
\* the plugin id, whatever the security flag.
C2_AllowListStepAsClaimed ==
    (HandshakeReturned /\ ~TokenStepFails(returned.req))
        => ((returned.resp.error = "plugin not allowed")
               <=> (Len(config.allowedPlugins) > 0
                      /\ ~InAllowList(returned.req.plugin_id)))

\* C3 (as claimed): the checks are token, allow-list (fails when the list is
\* non-empty and lacks the id), API major version; a request failing more than
\* one of them is rejected with the reason of the earliest one it fails.
C3_FirstFailingCheckWinsAsClaimed ==
    HandshakeReturned =>
        LET f1 == TokenStepFails(returned.req)
            f2 == Len(config.allowedPlugins) > 0
                    /\ ~InAllowList(returned.req.plugin_id)
            f3 == MajorOf(returned.req.api_version) # MajorOf(CoreAPIVersion)
        IN  /\ (f1 /\ (f2 \/ f3)) => returned.resp.error = "invalid token"
            /\ (~f1 /\ f2 /\ f3) => returned.resp.error = "plugin not allowed"

\* C4: isAPIVersionCompatible(plugin, core) is true exactly when the parts of
\* plugin and core before their first "." are equal, and a handshake that
\* reaches the version step is rejected as incompatible exactly when the major
\* of its api_version differs from the major of "1.0".
C4_CompatibleIffSameMajor ==
    /\ probe.pc \in {"called", "checked"}
          => (probe.compatible <=> MajorOf(probe.plugin) = MajorOf(probe.core))
    /\ probe.pc = "checked"
          => ((probe.error = "incompatible API version")
                 <=> MajorOf(probe.plugin) # MajorOf(CoreAPIVersion))

\* C4 witness: two different strings with the same major were found
\* compatible, and the handshake declaring the first passed the version step.
C4_Witness ==
    /\ probe.pc = "checked"
    /\ probe.compatible /\ probe.plugin # probe.core
    /\ Len(probe.plugin) = MaxVerLen
    /\ probe.error = ""

C7_DefinitionResolvesAsClaimed ==
    \A r \in insts : defs[r.definition_id].present

\* C8: when the step of a handshake that calls CreateInstance stores no
\* Instance, the handshake returns in that step with accepted=false, the
\* reason "internal error", no session id and no auth token, and the step
\* changes no Instance and no subscriber queue; the task is over, so it
\* broadcasts nothing later.
C8_CreateFailureIsInternalError ==
    [][ \A t \in TaskIds :
           (/\ tasks[t].kind = "handshake" /\ tasks[t].pc = "create"
            /\ tasks'[t] # tasks[t]
            /\ ~(\E r \in insts' : r \notin insts))
              => /\ tasks'[t].pc = "done"
                 /\ returned'.kind = "handshake"
                 /\ returned'.req.plugin_id = tasks[t].req.plugin_id
                 /\ ~returned'.resp.accepted
                 /\ returned'.resp.error = "internal error"
                 /\ returned'.resp.session_id = NoSession
                 /\ returned'.resp.auth_token = NoToken
                 /\ insts' = insts
                 /\ chans' = chans ]_vars

\* C8 witness: a handshake has just returned "internal error" while a
\* subscriber is listening, and its queue is empty.
C8_Witness ==
    /\ HandshakeReturned /\ returned.resp.error = "internal error"
    /\ insts = {}
    /\ \E id \in Subscribed : chans[subs[id]] = <<>>

\* C9: a heartbeat whose session id names no stored Instance, or whose auth
\* token is not that Instance's, is answered ok=false in the step that reads
\* the Instance, goes no further, and that step leaves every Instance as it
\* was.
C9_BadHeartbeatRejected ==
    [][ /\ \A t \in TaskIds :
              (tasks[t].pc = "idle" /\ tasks'[t].kind = "heartbeat")
                 => \E r \in insts : /\ r.id = tasks'[t].req.session_id
                                     /\ r.auth_token = tasks'[t].req.auth_token
        /\ (/\ returned'.kind = "heartbeat"
            /\ ~(\E r \in insts : /\ r.id = returned'.req.session_id
                                  /\ r.auth_token = returned'.req.auth_token))
              => /\ ~returned'.resp.accepted
                 /\ returned'.resp.error \in {"session not found",
                                              "invalid auth token"}
                 /\ insts' = insts
                 /\ tasks' = tasks ]_vars

\* C9 witness: a heartbeat naming a stored Instance with a wrong auth token
\* has just been answered ok=false.
C9_Witness ==
    /\ HeartbeatReturned /\ ~returned.resp.accepted
    /\ \E r \in insts : /\ r.id = returned.req.session_id
                        /\ r.auth_token # returned.req.auth_token
                        /\ r.status = PluginStatusUnhealthy

\* C10 (as claimed): when a heartbeat with a matching session id and auth
\* token returns, the stored Instance has last_heartbeat equal to the time
\* the heartbeat took and status running.
C10_ValidHeartbeatSetsRunningAsClaimed ==
    [][ \A t \in TaskIds :
           (/\ tasks[t].kind = "heartbeat" /\ tasks[t].pc = "update"
            /\ tasks'[t].pc = "done")
              => \E r \in insts' :
                    /\ r.id = tasks[t].req.session_id
                    /\ r.last_heartbeat = tasks[t].now
                    /\ r.status = PluginStatusRunning ]_vars

SweepStarts == monitor'.sweeps > monitor.sweeps

SweepLooksAt == monitor'.pending # monitor.pending /\ ~SweepStarts

C12_SweepLeavesOthersUntouched ==
    [][ /\ SweepStarts => insts' = insts
        /\ SweepLooksAt
           => /\ returned'.req.status \in {"stopped", "unhealthy"}
                   => insts' = insts
              /\ (/\ returned'.req.status = "running"
                  /\ returned'.req.last_heartbeat # Nil
                  /\ returned'.req.last_heartbeat >= monitor.cutoff)
                   => insts' = insts
              /\ \A r \in insts' \ insts :
                    r = [returned'.req EXCEPT !.status = r.status] ]_vars

\* C12 witness: the second sweep of a run has just looked at an Instance
\* that the first one had demoted: read as unhealthy, stale, and still stored
\* as it was read.
C12_Witness ==
    /\ returned.kind = "sweep" /\ returned.req.status = "unhealthy"
    /\ returned.req.last_heartbeat < monitor.cutoff
    /\ returned.req \in insts
    /\ monitor.sweeps = 2

HeartbeatSaves ==
    \E t \in TaskIds : /\ tasks[t].kind = "heartbeat" /\ tasks[t].pc = "update"
                       /\ tasks'[t].pc = "done"

DisableSaves ==
    \E t \in TaskIds : /\ tasks[t].kind = "set_instance_enabled"
                       /\ tasks[t].pc = "save" /\ tasks'[t].pc = "done"
                       /\ ~tasks[t].instance.enabled

\* C13 (as claimed): no step removes a stored Instance, and a step that
\* changes the status of a stored Instance is a step of the sweep that makes
\* it unhealthy, the write of a valid heartbeat that makes it running, or
\* the write of a SetInstanceEnabled(id, false) that makes it stopped.
C13_StatusChangesAsClaimed ==
    [][ \A r \in insts :
           \E q \in insts' :
              /\ q.id = r.id
              /\ q.status # r.status
                   => \/ q.status = "unhealthy" /\ SweepLooksAt
                      \/ q.status = "running" /\ HeartbeatSaves
                      \/ q.status = "stopped" /\ DisableSaves ]_vars

\* C14: a sweep starts only when the monitor is between two sweeps: the
\* previous sweep has looked at every Instance it read and has ended.  It
\* starts on a buffered tick, one sweep per tick received, and while a sweep
\* runs its list only shrinks, by the Instance it looks at.
C14_OneSweepAtATime ==
    [][ /\ SweepStarts
           => /\ monitor.pc = "idle"
              /\ monitor.pending = {}
              /\ monitor.ticked /\ ~monitor'.ticked
              /\ monitor'.sweeps = monitor.sweeps + 1
        /\ monitor.pc = "sweeping"
           => /\ monitor'.pending \subseteq monitor.pending
              /\ monitor'.cutoff = monitor.cutoff
              /\ monitor'.sweeps = monitor.sweeps ]_vars

\* C14 witness: the second sweep of a run is under way and the ticker has
\* fired again before it has ended.
C14_Witness ==
    /\ monitor.pc = "sweeping" /\ monitor.sweeps = 2
    /\ monitor.ticked
    /\ Cardinality(monitor.pending) = 1 /\ Cardinality(insts) = 2

\* C15: the step in which a handshake returns accepted=true appends one
\* event (plugin_connected, plugin id) to the queue of every subscriber that
\* has room, and nothing else to any queue, and the Instance of that handshake
\* is stored before the step; the step in which a handshake returns
\* accepted=false, and every other step of a handshake, changes no queue.
C15_OneConnectedBroadcastPerAccept ==
    [][ /\ (returned'.kind = "handshake" /\ returned'.resp.accepted)
           => /\ \E r \in insts : r.id = returned'.resp.session_id
              /\ DOMAIN chans' = DOMAIN chans
              /\ \A c \in DOMAIN chans :
                    chans'[c] =
                       IF (\E id \in SessionIds : subs[id] = c)
                          /\ Len(chans[c]) < 50
                       THEN chans[c] \o <<[type |-> "plugin_connected",
                                           data |-> returned'.req.plugin_id]>>
                       ELSE chans[c]
        /\ (returned'.kind = "handshake" /\ ~returned'.resp.accepted)
           => chans' = chans
        /\ \A t \in TaskIds :
              (/\ tasks[t].kind = "handshake" \/ tasks'[t].kind = "handshake"
               /\ tasks'[t] # tasks[t]
               /\ ~(returned'.kind = "handshake" /\ returned'.resp.accepted))
                 => chans' = chans ]_vars

\* C15 witness: two handshakes have been accepted while a subscriber was
\* listening, the second has just returned, and the subscriber's queue holds
\* one event for each.
C15_Witness ==
    /\ HandshakeReturned /\ returned.resp.accepted
    /\ \E id \in Subscribed :
          /\ Len(chans[subs[id]]) = 2
          /\ chans[subs[id]][1].data = "p1"
          /\ chans[subs[id]][2] = [type |-> "plugin_connected", data |-> "p2"]
    /\ Cardinality(insts) = 2

CreateSucceeds(t) ==
    /\ tasks[t].kind = "handshake" /\ tasks[t].pc = "create"
    /\ tasks'[t].pc = "broadcast"

\* C16 (as claimed): a step stores a new Instance exactly when the
\* CreateInstance of one handshake succeeds, and that Instance is the
\* handshake's own; a handshake whose Instance is stored is accepted by its
\* next step, and no handshake is accepted otherwise; and the Instances of a
\* plugin id all reference one Definition row, which is stored.
C16_ConcurrentHandshakesAsClaimed ==
    [][ /\ \A t \in TaskIds :
              CreateSucceeds(t)
                 => /\ Cardinality(insts') = Cardinality(insts) + 1
                    /\ \E r \in insts' \ insts : r.id = tasks[t].sessionID
        /\ (\A t \in TaskIds : ~CreateSucceeds(t))
              => Cardinality(insts') = Cardinality(insts)
        /\ \A t \in TaskIds :
              (tasks[t].pc = "broadcast" /\ tasks'[t] # tasks[t])
                 => returned'.kind = "handshake" /\ returned'.resp.accepted
        /\ (returned'.kind = "handshake" /\ returned'.resp.accepted)
              => \E t \in TaskIds : tasks[t].pc = "broadcast"
                                    /\ tasks'[t].pc = "done"
        /\ \A r \in insts' : defs'[r.definition_id].present ]_vars

UpsertStep(t) ==
    /\ tasks[t].kind = "handshake" /\ tasks[t].pc = "upsert"
    /\ tasks'[t].pc = "create"

\* C17 (as claimed): the upsert of a handshake for plugin id P leaves the
\* stored Definition P holding exactly the values of that handshake, its
\* version, api_version and capabilities and enabled=true, with nothing kept
\* from the row stored before (or, when the gateway refuses the write,
\* leaves the row as it was); it is the last writer whose values are stored.
C17_DefinitionReplacedAsClaimed ==
    [][ \A t \in TaskIds :
           UpsertStep(t)
              => \/ defs' = defs
                 \/ defs'[tasks[t].req.plugin_id] =
                       [present |-> TRUE,
                        version |-> tasks[t].req.version,
                        api_version |-> tasks[t].req.api_version,
                        capabilities |-> tasks[t].req.capabilities,
                        enabled |-> TRUE] ]_vars

\* C18 (as claimed): every handshake or heartbeat answered with
\* accepted=false or ok=false carries a non-empty reason and comes with no
\* transport-level error, on the gRPC path and on the HTTP path.
C18_FailuresAreStructuredOnly ==
    (/\ returned.kind \in {"handshake", "heartbeat"}
     /\ ~returned.resp.accepted)
       => /\ returned.resp.error # ""
          /\ returned.resp.grpc_err = "nil"
          /\ returned.resp.http_err = "nil"

SendDirectReturned == returned.kind = "send_direct"

\* C19: a SendDirect to an id that has no channel in the map (never
\* subscribed, or subscribed and unsubscribed since) returns in its lookup
\* step with plugin_not_found, goes on to no send, and leaves every queue as
\* it was; a lookup that returns has found no channel.
C19_SendDirectToUnmappedFails ==
    [][ /\ \A t \in TaskIds :
              (tasks[t].pc = "idle" /\ tasks'[t].kind = "send_direct")
                 => subs[tasks'[t].req.session_id] # 0
        /\ (returned'.kind = "send_direct" /\ tasks' = tasks)
              => /\ subs[returned'.req.session_id] = 0
                 /\ ~returned'.resp.accepted
                 /\ returned'.resp.error = ErrPluginNotFound
                 /\ chans' = chans
                 /\ subs' = subs ]_vars

\* C19 witness: a SendDirect to an id has just failed with plugin_not_found
\* while an earlier SendDirect to the same id still holds the channel the id
\* was subscribed with, closed by Unsubscribe since.
C19_Witness ==
    /\ SendDirectReturned
    /\ returned.resp.error = ErrPluginNotFound
    /\ subs[returned.req.session_id] = 0
    /\ \E t \in TaskIds : /\ tasks[t].pc = "send"
                          /\ tasks[t].req.session_id = returned.req.session_id
                          /\ tasks[t].ch \in closed

SendStep(t) ==
    /\ tasks[t].kind = "send_direct" /\ tasks[t].pc = "send"
    /\ tasks'[t].pc = "done"

\* C20: no queue ever holds more than 50 events and a SendDirect that has
\* found its channel can always take its send step; on an open channel that
\* step appends the event and succeeds while fewer than 50 events are
\* queued, and with 50 queued it fails with channel_full and leaves every
\* queue as it was.
C20_QueueHoldsAtMostFifty ==
    /\ [](/\ \A c \in DOMAIN chans : Len(chans[c]) <= 50
          /\ \A t \in TaskIds :
                (~panicked /\ tasks[t].kind = "send_direct"
                           /\ tasks[t].pc = "send")
                   => ENABLED SendDirectSend(t))
    /\ [][ \A t \in TaskIds :
              (SendStep(t) /\ tasks[t].ch \notin closed)
                 => IF Len(chans[tasks[t].ch]) < 50
                    THEN /\ returned'.resp.accepted
                         /\ returned'.resp.error = ""
                         /\ Len(chans'[tasks[t].ch]) =
                               Len(chans[tasks[t].ch]) + 1
                         /\ \A c \in DOMAIN chans :
                               c # tasks[t].ch => chans'[c] = chans[c]
                    ELSE /\ ~returned'.resp.accepted
                         /\ returned'.resp.error = ErrChannelFull
                         /\ chans' = chans ]_vars

\* C20 witness: a SendDirect has just failed with channel_full on a queue
\* holding 50 events.
C20_Witness ==
    /\ SendDirectReturned
    /\ returned.resp.error = ErrChannelFull
    /\ \E c \in DOMAIN chans : Len(chans[c]) = 50

BroadcastStarts(t) ==
    /\ tasks[t].pc = "idle" /\ tasks'[t].pc # "idle"
    /\ tasks'[t].kind = "send_broadcast" \/ returned'.kind = "send_broadcast"

FanoutStep(t) ==
    /\ tasks[t].kind = "send_broadcast" /\ tasks[t].pc = "fanout"
    /\ tasks'[t] # tasks[t]

Taken(t) == tasks[t].snap \ tasks'[t].snap

\* C21 (as claimed): a SendBroadcast copies exactly the entries of the ids
\* subscribed when it takes its snapshot; each of its sends takes one entry
\* of the copy, appends the event to that entry's queue when the queue holds
\* fewer than 50 events and leaves it alone otherwise, changes no other
\* queue (so an id subscribed after the snapshot gets nothing from this
\* call), and the call goes on until every entry of the copy is taken.
C21_BroadcastReachesSnapshotAsClaimed ==
    [][ \A t \in TaskIds :
           /\ BroadcastStarts(t)
                 => /\ tasks'[t].snap = {<<id, subs[id]>> : id \in Subscribed}
                    /\ (tasks'[t].pc = "done") = (Subscribed = {})
                    /\ chans' = chans
           /\ FanoutStep(t)
                 => /\ Cardinality(Taken(t)) = 1
                    /\ (tasks'[t].pc = "done") = (tasks[t].snap = Taken(t))
                    /\ \A entry \in Taken(t) :
                          /\ chans'[entry[2]] =
                                IF Len(chans[entry[2]]) < 50
                                THEN Append(chans[entry[2]], tasks[t].event)
                                ELSE chans[entry[2]]
                          /\ \A c \in DOMAIN chans :
                                c # entry[2] => chans'[c] = chans[c] ]_vars

Holds(c, e) == \E i \in 1..Len(chans[c]) : chans[c][i] = e

Pos(c, e) == CHOOSE i \in 1..Len(chans[c]) : chans[c][i] = e

\* C22 (as claimed): broadcasts of concurrent producers are fanned out one
\* after the other, in one order for all subscribers: two queues that both
\* hold the same two broadcast events hold them in the same relative order.
C22_BroadcastsInOneOrder ==
    \A c1, c2 \in DOMAIN chans :
       \A e1, e2 \in BroadcastEvents :
          (/\ e1 # e2
           /\ Holds(c1, e1) /\ Holds(c1, e2)
           /\ Holds(c2, e1) /\ Holds(c2, e2))
             => ((Pos(c1, e1) < Pos(c1, e2)) <=> (Pos(c2, e1) < Pos(c2, e2)))

\* C23: Unsubscribe(id) closes the channel mapped to id and deletes the
\* entry, leaving what is queued in it to be received; for an id without an
\* entry it changes nothing; it changes no other entry and no queue.  A
\* closed channel takes no further event, and a receiver is told that it is
\* closed only when it is empty.
C23_UnsubscribeClosesAndRemoves ==
    [][ /\ returned'.kind = "unsubscribe"
           => LET id == returned'.req.session_id
              IN  /\ closed' = IF subs[id] # 0 THEN closed \cup {subs[id]}
                               ELSE closed
                  /\ subs' = [subs EXCEPT ![id] = 0]
                  /\ chans' = chans
        /\ \A c \in DOMAIN chans :
              c \in closed => \/ chans'[c] = chans[c]
                               \/ /\ chans[c] # <<>>
                                  /\ chans'[c] = Tail(chans[c])
        /\ (returned'.kind = "receive" /\ returned'.resp.error = "closed")
              => /\ chans' = chans
                 /\ \E c \in DOMAIN chans : c \in closed /\ chans[c] = <<>> ]_vars

\* C23 witness: the receiver of a queue that held events when Unsubscribe
\* closed it has drained it and is told that it is closed, while another id
\* is still subscribed with an event in its queue.
C23_Witness ==
    /\ returned.kind = "receive" /\ returned.resp.error = "closed"
    /\ RelayChan \notin closed
    /\ closed = {1} /\ Len(chans) = 2
    /\ chans[1] = <<>> /\ chans[2] # <<>>
    /\ \E id \in SessionIds : subs[id] = 2

Mapped(c) == \E id \in SessionIds : subs[id] = c

SubscribeStep == Len(chans') = Len(chans) + 1

\* C24: Subscribe maps its id to a new empty queue and leaves the queue it
\* replaces as it is, open and with its events; every lookup of SendDirect
\* and every snapshot of SendBroadcast taken afterwards reads the table as
\* it then is, hence the new queue; and a queue that is open and no longer
\* mapped is not closed by any step, Unsubscribe and Stop included.
C24_ResubscribeReplacesMapping ==
    [][ /\ SubscribeStep
           => /\ \E id \in SessionIds :
                    subs' = [subs EXCEPT ![id] = Len(chans) + 1]
              /\ chans' = Append(chans, <<>>)
              /\ closed' = closed
        /\ \A t \in TaskIds :
              /\ (tasks[t].pc = "idle" /\ tasks'[t].pc = "send")
                    => tasks'[t].ch = subs[tasks'[t].req.session_id]
              /\ (tasks[t].pc = "idle" /\ tasks'[t].pc = "fanout")
                    => tasks'[t].snap = {<<id, subs[id]>> : id \in Subscribed}
        /\ \A c \in DOMAIN chans :
              (c \notin closed /\ ~Mapped(c)) => c \notin closed' ]_vars

\* C24 witness: inst-a, subscribed with a full queue, was subscribed again;
\* an event sent afterwards is in the new queue, Stop has closed the new
\* queue, and the first queue is still open and full.
C24_Witness ==
    /\ Len(chans) = 2
    /\ chans[1] = FullQueue /\ 1 \notin closed
    /\ chans[2] # <<>> /\ 2 \in closed
    /\ RelayChan \in closed

Stopped == RelayChan \in closed

Enqueued(c, e) == chans'[c] = Append(chans[c], e)

Dequeued(c) ==
    /\ chans[c] # <<>>
    /\ chans'[c] = Tail(chans[c])
    /\ returned'.kind = "receive" /\ returned'.event = Head(chans[c])

\* C26: a step changes at most one queue, either by appending one event at
\* its end or by handing its oldest event to the receiver and removing it;
\* a SendDirect that succeeds has appended its event once, to the channel
\* its lookup found under its id, a send of a broadcast that succeeds has
\* appended the broadcast's event once to the entry it took, and a send
\* that fails has appended nothing.
C26_AtMostOnceFifo ==
    [][ /\ \A c \in DOMAIN chans :
              \/ chans'[c] = chans[c]
              \/ Dequeued(c)
              \/ \E t \in TaskIds :
                    /\ tasks[t].pc \in {"send", "fanout"}
                    /\ tasks'[t] # tasks[t]
                    /\ returned'.resp.accepted
                    /\ Enqueued(c, IF tasks[t].pc = "send"
                                   THEN [type |-> EventTypeConfigUpdate,
                                         data |-> ""]
                                   ELSE tasks[t].event)
                    /\ IF tasks[t].pc = "send" THEN c = tasks[t].ch
                       ELSE \E entry \in Taken(t) : c = entry[2]
        /\ \A c1, c2 \in DOMAIN chans :
              (chans'[c1] # chans[c1] /\ chans'[c2] # chans[c2]) => c1 = c2
        /\ \A t \in TaskIds :
              /\ (tasks[t].pc = "idle" /\ tasks'[t].pc = "send")
                    => /\ tasks'[t].ch # 0
                       /\ tasks'[t].ch = subs[tasks'[t].req.session_id]
              /\ (tasks[t].pc \in {"send", "fanout"} /\ tasks'[t] # tasks[t])
                    => IF returned'.resp.accepted
                       THEN \E c \in DOMAIN chans : chans'[c] # chans[c]
                       ELSE chans' = chans ]_vars

\* C26 witness: of two broadcasts queued for one subscriber the receiver
\* has just been handed one, and the other is what is left in the queue.
C26_Witness ==
    /\ returned.kind = "receive"
    /\ returned.event \in BroadcastEvents
    /\ \E c \in DOMAIN chans :
          /\ Len(chans[c]) = 1
          /\ chans[c][1] \in BroadcastEvents \ {returned.event}

StartReturns == agent.call = "start" /\ agent'.call # "start"

\* C27: a Start makes its handshake call once and returns when that call
\* returns; when the handshake is rejected or fails, Start returns an
\* error, spawns no loop (the loops and the WaitGroup are as before) and
\* leaves no session id and no auth token in the client.
C27_FailedStartSpawnsNothing ==
    [][ /\ agent'.starts \in {agent.starts, agent.starts + 1}
        /\ (agent'.starts = agent.starts + 1)
              <=> (agent.call = "none" /\ agent'.call = "start")
        /\ StartReturns
              => /\ returned'.kind = "start"
                 /\ agent'.call = "none"
                 /\ ~returned'.resp.accepted
                       => /\ returned'.resp.error # ""
                          /\ agent'.loops = agent.loops
                          /\ agent'.wg = agent.wg
                          /\ agent'.client.session_id = NoSession
                          /\ agent'.client.auth_token = NoToken ]_vars

\* C27 witness: after a session that Stop has ended, a second Start has
\* just returned the rejection of its handshake.
C27_Witness ==
    /\ returned.kind = "start" /\ returned.resp.error = "handshake rejected"
    /\ agent.starts = 2
    /\ agent.loops[1].hb = "exited"
    /\ agent.loops[2] = NoLoops
    /\ agent.wg = 0

\* C28: Stop returns only when no loop the agent has spawned is alive; a
\* loop that has exited takes no further step, and a heartbeat is issued
\* only by a heartbeat loop that is alive, so that from the return of Stop
\* until Start spawns new loops nothing of the agent runs.
C28_StopWaitsForLoops ==
    [][ /\ returned'.kind = "stop"
              => /\ agent.call = "stop"
                 /\ \A i \in StartIds : ~LoopsAlive(i)
        /\ \A i \in StartIds :
              /\ agent.loops[i].hb = "exited" => agent'.loops[i].hb = "exited"
              /\ agent.loops[i].ev = "exited" => agent'.loops[i].ev = "exited"
              /\ (~LoopsAlive(i) /\ agent'.loops[i] # agent.loops[i])
                    => StartReturns
        /\ returned'.kind = "heartbeat_call"
              => \E i \in StartIds : /\ agent.loops[i].hb = "select"
                                     /\ agent'.loops[i].hb = "call" ]_vars

\* C28 witness: Stop has just returned for an agent with an event handler,
\* whose heartbeat loop and event loop have both exited.
C28_Witness ==
    /\ returned.kind = "stop"
    /\ agent.loops[1].hb = "exited" /\ agent.loops[1].ev = "exited"
    /\ agent.wg = 0

\* C29: a Stop that has been called returns, whatever the coordinator does:
\* Stop in progress leads to Stop no longer in progress.
C29_StopEventuallyReturns ==
    (agent.call = "stop") ~> (agent.call = "none")

\* C29 witness: Stop has been called while the heartbeat loop is inside a
\* heartbeat call to a coordinator that is hung.
C29_Witness ==
    /\ agent.call = "stop"
    /\ agent.hung
    /\ \E i \in StartIds : agent.loops[i].hb = "call"

C31_SweepGoesOnAfterFailure ==
    [][ SweepLooksAt
           => /\ (returned'.resp.demoted /\ ~returned'.resp.persisted)
                    => insts' = insts
              /\ monitor'.pending = monitor.pending \ {returned'.req}
              /\ returned'.req \in monitor.pending
              /\ (monitor'.pc = "idle") <=> (monitor'.pending = {})
              /\ \A r \in insts : r.id # returned'.req.id => r \in insts' ]_vars

\* C31 witness: in the first sweep of a run the gateway has just refused
\* the demotion of one Instance, another Instance that this sweep had
\* demoted before is still stored as unhealthy, and the sweep has ended.
C31_Witness ==
    /\ returned.kind = "sweep"
    /\ returned.resp.demoted /\ ~returned.resp.persisted
    /\ monitor.sweeps = 1 /\ monitor.pc = "idle"
    /\ \E r \in insts : /\ r.id # returned.req.id
                        /\ r.status = PluginStatusUnhealthy

\* A SetInstanceEnabled call of task t writes its copy and returns.
EnableSaves(t) ==
    /\ tasks[t].kind = "set_instance_enabled"
    /\ tasks[t].pc = "save" /\ tasks'[t].pc = "done"

\* C32 (as claimed): a SetInstanceEnabled call for an unknown id returns an
\* error, changes no Instance and sends nothing.  For a stored Instance a
\* disabling call makes one attempt to send the shutdown event "instance
\* disabled" to the id's queue and goes on to the write whatever the attempt
\* gives, an enabling call sends nothing; the write that succeeds stores
\* the requested enabled flag, with status stopped when disabling and with
\* the status the stored Instance had when enabling.
C32_SetInstanceEnabledAsClaimed ==
    [][ \A t \in TaskIds :
           /\ (returned'.kind = "set_instance_enabled"
                 /\ returned'.resp.error = "record not found")
                 => /\ GetInstance(insts, returned'.req.session_id) = NoInst
                    /\ insts' = insts /\ chans' = chans /\ tasks' = tasks
           /\ (tasks[t].pc = "idle" /\ tasks'[t].kind = "set_instance_enabled")
                 => /\ GetInstance(insts, tasks'[t].req.session_id) # NoInst
                    /\ insts' = insts /\ chans' = chans
                    /\ tasks'[t].pc = IF tasks'[t].instance.enabled
                                      THEN "save" ELSE "lookup"
           /\ (tasks[t].kind = "set_instance_enabled" /\ tasks[t].pc = "lookup"
                 /\ tasks'[t] # tasks[t])
                 => /\ tasks'[t].pc \in {"send", "save"}
                    /\ insts' = insts /\ chans' = chans
           /\ (tasks[t].kind = "set_instance_enabled" /\ tasks[t].pc = "send"
                 /\ tasks'[t] # tasks[t])
                 => /\ tasks'[t].pc = "save"
                    /\ insts' = insts
                    /\ \A c \in DOMAIN chans :
                          \/ chans'[c] = chans[c]
                          \/ /\ c = tasks[t].ch
                             /\ chans'[c] =
                                   Append(chans[c],
                                          [type |-> EventTypeShutdown,
                                           data |-> "instance disabled"])
           /\ EnableSaves(t)
                 => /\ chans' = chans
                    /\ returned'.resp.error # "" => insts' = insts
                    /\ returned'.resp.error = ""
                          => \E r \in insts, q \in insts' :
                                /\ r.id = tasks[t].req.session_id
                                /\ q.id = r.id
                                /\ q.enabled = tasks[t].instance.enabled
                                /\ q.status = IF q.enabled THEN r.status
                                              ELSE PluginStatusStopped
                                /\ insts' \ {q} = insts \ {r} ]_vars

\* PluginManager.Stop of task t closes the subscriber queues.
StopClosesQueues(t) ==
    /\ tasks[t].kind = "manager_stop"
    /\ tasks[t].pc = "bus_stop" /\ tasks'[t].pc = "close_stopped"

\* C33 (as claimed): each send of Stop's broadcast appends the shutdown
\* event "system shutting down" to the queue it takes when that queue holds
\* fewer than 50 events, all of them before Stop closes any queue; and when
\* Stop closes the queues, a queue that holds this shutdown event holds it
\* as its newest event, so that it is the last event its receiver gets
\* before the queue is seen closed.
C33_ShutdownIsLastAsClaimed ==
    [][ \A t \in TaskIds :
           /\ (tasks[t].kind = "manager_stop" /\ tasks[t].pc = "fanout"
                 /\ tasks'[t] # tasks[t])
                 => \E entry \in tasks[t].snap :
                       /\ tasks'[t].snap = tasks[t].snap \ {entry}
                       /\ entry[2] \notin closed
                       /\ Len(chans[entry[2]]) < SubscriberQueueCap
                             => Enqueued(entry[2], SystemShutdown)
           /\ StopClosesQueues(t)
                 => /\ tasks[t].snap = {}
                    /\ \A c \in DOMAIN chans :
                          (c \in closed' /\ Holds(c, SystemShutdown))
                             => chans[c][Len(chans[c])] = SystemShutdown ]_vars

\* C34 (as claimed): the queue a SendDirect found in its lookup is open
\* when the call sends into it, the queue of the entry a SendBroadcast takes
\* from its copy is open when the call sends into it, and so no send ends
\* in the panic of a send on a closed channel.
C34_NoSendOnClosedAsClaimed ==
    [][ /\ \A t \in TaskIds :
              /\ (tasks[t].kind = "send_direct" /\ tasks[t].pc = "send"
                    /\ tasks'[t] # tasks[t])
                    => tasks[t].ch \notin closed
              /\ FanoutStep(t)
                    => \A entry \in Taken(t) : entry[2] \notin closed
        /\ ~panicked' ]_vars

\* The heartbeat timeout in force, in ticks of the clock.
TimeoutTicks ==
    ParseDuration(IF config.heartbeatTimeout = "" THEN "30s"
                  ELSE config.heartbeatTimeout) \div SecondsPerTick

\* C35 (as claimed): a step of a sweep and the write of a SetInstanceEnabled
\* call never take the stored last_heartbeat of an Instance back to an older
\* value, and never turn to unhealthy an Instance whose stored
\* last_heartbeat is within the timeout: what a heartbeat has stored is not
\* undone by a write computed from an older copy.
C35_HeartbeatNotLostAsClaimed ==
    [][ (SweepLooksAt \/ \E t \in TaskIds : EnableSaves(t))
           => \A r \in insts :
                 \E q \in insts' :
                    /\ q.id = r.id
                    /\ q.last_heartbeat >= r.last_heartbeat
                    /\ (q.status = PluginStatusUnhealthy
                          /\ r.status # PluginStatusUnhealthy)
                          => r.last_heartbeat < now - TimeoutTicks ]_vars

\* C36 (as claimed): no stored Instance is disabled and running.
C36_DisabledNeverRunningAsClaimed ==
    \A r \in insts : ~r.enabled => r.status # PluginStatusRunning

\* C37 (as claimed): in the step in which a heartbeat is answered ok=true,
\* whether the gateway took the update or refused it, the stored Instance
\* of the heartbeat's session has status running and last_heartbeat equal
\* to the time the heartbeat took.
C37_OkHeartbeatIsStoredAsClaimed ==
    [][ (returned'.kind = "heartbeat" /\ returned'.resp.accepted)
           => \A t \in TaskIds :
                 (tasks[t].kind = "heartbeat" /\ tasks'[t] # tasks[t])
                    => LET r == GetInstance(insts', returned'.req.session_id)
                       IN  /\ r # NoInst
                           /\ r.status = PluginStatusRunning
                           /\ r.last_heartbeat = tasks[t].now ]_vars

\* C38 (as claimed), on a coordinator that starts with an empty store: as
\* long as every handshake called so far has returned accepted=false (no
\* handshake is in progress and none has stored an Instance, which every
\* accepted one does), the stored Definitions and Instances are those of
\* the start and no queue holds an event.
C38_RejectedHandshakeChangesNothingAsClaimed ==
    (/\ \A t \in TaskIds : tasks[t].kind # "handshake"
     /\ insts = {})
       => /\ \A p \in PluginIds : defs[p] = NoDef
          /\ \A c \in DOMAIN chans : chans[c] = <<>>

\* PluginManager.Stop has returned: m.stopped is closed.
ManagerStopped == StoppedChan \in closed

\* C39 (as claimed), its safety part: once PluginManager.Stop has returned
\* the monitor starts no sweep, no step of a sweep changes a stored
\* Instance, and a monitor that has terminated stays so.
C39_NoSweepAfterStopAsClaimed ==
    [][ /\ ManagerStopped
           => /\ ~SweepStarts
              /\ SweepLooksAt => insts' = insts
        /\ monitor.pc = "exited" => monitor' = monitor ]_vars

\* The heartbeat loops of the agent that are running.
HeartbeatLoops(a) == {i \in StartIds : a.loops[i].hb \in {"select", "call"}}

\* C40 (as claimed): when a Start returns without error exactly one
\* heartbeat loop of the agent is running, and a heartbeat loop ends only
\* in a call of Stop, so that it issues heartbeats until then; in every
\* order of Start and Stop calls.
C40_OneHeartbeatLoopPerStartAsClaimed ==
    [][ /\ (StartReturns /\ returned'.resp.accepted)
              => Cardinality(HeartbeatLoops(agent')) = 1
        /\ \A i \in StartIds :
              (i \in HeartbeatLoops(agent) /\ i \notin HeartbeatLoops(agent'))
                 => agent.call = "stop" ]_vars

====
